---- MODULE Spec2Model ----
(***************************************************************************)
(* Package distsign (src/unnamed/part_004): the two tier signing scheme     *)
(* root keys -(sign)-> signing keys -(sign)-> files.                       *)
(*                                                                         *)
(* Spec is one Client making Download calls one after the other, LiveSpec  *)
(* the same with the steps of a call taken fairly, ConcSpec several calls  *)
(* running at once on one Client, SignSpec the builder: GenerateKey,       *)
(* NewSigner, the two signing methods and the verification of what they    *)
(* signed.                                                                 *)
(*                                                                         *)
(* Byte strings are sequences of symbols.  A symbol stands for a run of    *)
(* bytes whose inner structure the code never looks into: a run of equal   *)
(* bytes, the 32 bytes of a public key, the 64 bytes of an Ed25519         *)
(* signature, the 64 bytes of a SHA-512 digest, one PEM block, or a cut    *)
(* off prefix of one of these.  Every symbol knows its length in bytes, so *)
(* the size limits of the code keep their real values.  Signatures and     *)
(* digests are ideal: a signature verifies only under the key, the mode    *)
(* and the message it was made for, and a digest names its input.          *)
(*                                                                         *)
(* Package cache (src/util/cache): CacheSpec is one Memory or one Disk     *)
(* with its clock and, for a Disk, the file at its path; EquivSpec is a     *)
(* Memory and a Disk that are given the same calls.                        *)
(* Package kube (src/unnamed/part_006): ConnSpec is the list of conditions *)
(* of one Connector under SetConnectorCondition and                        *)
(* RemoveConnectorCondition.                                               *)
(* Package netutil (src/unnamed/part_000): FwdSpec is one call of          *)
(* CheckIPForwarding on a system drawn from its routes, interfaces and     *)
(* sysctl values.                                                          *)
(* The ConnectorReconciler (src/unnamed/part_003): ReconSpec is one        *)
(* reconciler and the Reconcile calls of several Connectors, one call at a *)
(* time for a Connector and the calls of different Connectors interleaved  *)
(* at their API calls and at their steps under the mutex.                  *)
(***************************************************************************)
EXTENDS Integers, Sequences, FiniteSets, TLC

\* ------------------------------------------------------------ bounds
\* Key pairs 1..NumRootKeys are root key pairs, the next NumSigningKeys are
\* signing key pairs.  A trust store holds any of the root keys, a published
\* bundle any of the signing keys.
NumRootKeys == 2
NumSigningKeys == 2
\* Download calls made to an honest server in one behaviour.
MaxCalls == 2

\* ------------------------------------------------------------ constants
pemTypePrivate == "PRIVATE KEY"
pemTypePublic == "PUBLIC KEY"
downloadSizeLimit == 536870912
signingKeysSizeLimit == 1048576
signatureSizeLimit == 64
PublicKeySize == 32
PrivateKeySize == 64
Sha512Size == 64

\* ed25519.Options{Hash: crypto.Hash(0)} and ed25519.Options{Hash: crypto.SHA512}
OptsPure == "Hash(0)"
OptsSHA512 == "SHA512"
Modes == {OptsPure, OptsSHA512}

RootIds == 1..NumRootKeys
SigningIds == (NumRootKeys + 1)..(NumRootKeys + NumSigningKeys)
KeyIds == RootIds \cup SigningIds

\* ------------------------------------------------------------ byte strings
Run(v, n) == [t |-> "run", v |-> v, n |-> n]
PubBytes(k) == [t |-> "pub", id |-> k]
PrivBytes(k) == [t |-> "priv", pair |-> k]
\* Symbol s with one of its bytes changed.
Mod(s) == [t |-> "mod", orig |-> s]
SigSym(k, opts, msg, flip) ==
    [t |-> "sig", key |-> k, mode |-> opts, msg |-> msg, flip |-> flip]
Sha(b) == [t |-> "sha512", of |-> b]
Pem(type, body, ok) == [t |-> "pem", type |-> type, body |-> body, ok |-> ok]
Frag(sym, n) == [t |-> "frag", whole |-> sym, cut |-> n]

NL == Run(10, 1)

Min(a, b) == IF a <= b THEN a ELSE b

\* Length of the type string of a PEM block.
TypeLen(type) == IF type = pemTypePrivate THEN 11 ELSE 10

\* pem.EncodeToMemory: "-----BEGIN T-----\n", the base64 text in lines of 64
\* characters, "-----END T-----\n".
PemLen(type, n) ==
    LET b64 == 4 * ((n + 2) \div 3)
        lines == (b64 + 63) \div 64
    IN  (17 + TypeLen(type)) + (b64 + lines) + (15 + TypeLen(type))

RECURSIVE ByteLen(_)
RECURSIVE SymLen(_)
SymLen(s) ==
    CASE s.t = "run" -> s.n
      [] s.t = "pub" -> PublicKeySize
      [] s.t = "priv" -> PrivateKeySize
      [] s.t = "mod" -> SymLen(s.orig)
      [] s.t = "sig" -> signatureSizeLimit
      [] s.t = "sha512" -> Sha512Size
      [] s.t = "pem" -> PemLen(s.type, ByteLen(s.body))
      [] s.t = "frag" -> s.cut

ByteLen(b) == IF b = <<>> THEN 0 ELSE SymLen(Head(b)) + ByteLen(Tail(b))

\* The first n bytes of symbol s, n < SymLen(s).
Cut(s, n) ==
    CASE s.t = "run" -> Run(s.v, n)
      [] s.t = "frag" -> Frag(s.whole, n)
      [] OTHER -> Frag(s, n)

\* io.LimitReader(body, limit) read to its end: the first limit bytes.
RECURSIVE LimitReader(_, _)
LimitReader(body, limit) ==
    IF body = <<>> \/ limit <= 0 THEN <<>>
    ELSE LET s == Head(body)
         IN  IF SymLen(s) <= limit
             THEN <<s>> \o LimitReader(Tail(body), limit - SymLen(s))
             ELSE <<Cut(s, limit)>>

\* sha512: h.Sum(nil) after the bytes b were written to h.
SHA512(b) == <<Sha(b)>>

\* s.Sign(nil, msg, opts) with the private half of key pair k.
Sign(k, msg, opts) == <<SigSym(k, opts, msg, 0)>>

\* VerifyWithOptions that does not tell the two modes apart.
VerifyWithOptionsAnyMode(pub, msg, sig, opts) ==
    /\ ByteLen(sig) = signatureSizeLimit
    /\ Len(sig) = 1
    /\ sig[1].t = "sig"
    /\ sig[1].flip = 0
    /\ pub = <<PubBytes(sig[1].key)>>
    /\ sig[1].msg = msg

\* ed25519.VerifyWithOptions(pub, msg, sig, opts) = nil
VerifyWithOptions(pub, msg, sig, opts) ==
    /\ opts = OptsSHA512 => ByteLen(msg) = Sha512Size
    /\ ByteLen(sig) = signatureSizeLimit
    /\ Len(sig) = 1
    /\ sig[1].t = "sig"
    /\ sig[1].flip = 0
    /\ pub = <<PubBytes(sig[1].key)>>
    /\ sig[1].mode = opts
    /\ sig[1].msg = msg

\* ------------------------------------------------------------ PEM
NoBlock == [t |-> "nil"]

\* The last byte of symbol s is a newline.
EndsLine(s) == (s.t = "pem") \/ (s.t = "run" /\ s.v = 10)

\* pem.Decode: the first well formed block that starts a line, and what
\* follows it; leading text and malformed blocks are skipped.
BlockStarts(data) ==
    {i \in 1..Len(data) :
        /\ data[i].t = "pem"
        /\ data[i].ok
        /\ (i = 1 \/ EndsLine(data[i - 1]))}

pemDecode(data) ==
    IF BlockStarts(data) = {}
    THEN [b |-> NoBlock, rest |-> data]
    ELSE LET i == CHOOSE j \in BlockStarts(data) :
                      \A m \in BlockStarts(data) : j <= m
         IN  [b |-> data[i], rest |-> SubSeq(data, i + 1, Len(data))]

GenerateKeyPub(k) == Pem(pemTypePublic, <<PubBytes(k)>>, TRUE)

parsePublicKey(data) ==
    LET d == pemDecode(data)
    IN  IF d.b = NoBlock
        THEN [err |-> "failed to decode PEM data", pub |-> <<>>, rest |-> <<>>]
        ELSE IF d.b.type # pemTypePublic
        THEN [err |-> "PEM type", pub |-> <<>>, rest |-> <<>>]
        ELSE IF ByteLen(d.b.body) # PublicKeySize
        THEN [err |-> "public key has incorrect length", pub |-> <<>>, rest |-> <<>>]
        ELSE [err |-> "nil", pub |-> d.b.body, rest |-> d.rest]

\* pem.EncodeToMemory of the private half of key pair k.
GenerateKeyPriv(k) == Pem(pemTypePrivate, <<PrivBytes(k)>>, TRUE)

\* parsePrivateKey without the check for trailing data.
parsePrivateKeyAllowsTrailing(data) ==
    LET d == pemDecode(data)
    IN  IF d.b = NoBlock
        THEN [err |-> "failed to decode PEM data", key |-> <<>>]
        ELSE IF d.b.type # pemTypePrivate
        THEN [err |-> "PEM type", key |-> <<>>]
        ELSE IF ByteLen(d.b.body) # PrivateKeySize
        THEN [err |-> "private key has incorrect length", key |-> <<>>]
        ELSE [err |-> "nil", key |-> d.b.body]

parsePrivateKey(data) ==
    LET d == pemDecode(data)
    IN  IF d.b = NoBlock
        THEN [err |-> "failed to decode PEM data", key |-> <<>>]
        ELSE IF Len(d.rest) > 0
        THEN [err |-> "trailing PEM data", key |-> <<>>]
        ELSE IF d.b.type # pemTypePrivate
        THEN [err |-> "PEM type", key |-> <<>>]
        ELSE IF ByteLen(d.b.body) # PrivateKeySize
        THEN [err |-> "private key has incorrect length", key |-> <<>>]
        ELSE [err |-> "nil", key |-> d.b.body]

\* ed25519.PrivateKey.Sign(rand, message, opts) with the key bytes priv:
\* in pre-hashed mode the message must have the length of a SHA-512 digest.
PrivateKeySign(priv, message, opts) ==
    IF opts = OptsSHA512 /\ ByteLen(message) # Sha512Size
    THEN [err |-> "ed25519: bad Ed25519ph message hash length", sig |-> <<>>]
    ELSE [err |-> "nil", sig |-> Sign(priv[1].pair, message, opts)]

\* RootKey.SignSigningKeys
SignSigningKeys(s, pubBundle) == PrivateKeySign(s, pubBundle, OptsPure)

\* SignPackageHash that signs in raw mode.
SignPackageHashRaw(s, sha512) == PrivateKeySign(s, sha512, OptsPure)

\* SigningKey.SignPackageHash
SignPackageHash(s, sha512) == PrivateKeySign(s, sha512, OptsSHA512)

\* verifyAny with the result of the verification ignored.
verifyAnyUnchecked(keys, msg, sig, opts) == keys # <<>>

\* verifyAny that tries the first key only.
verifyAnyFirstOnly(keys, msg, sig, opts) ==
    keys # <<>> /\ VerifyWithOptions(Head(keys), msg, sig, opts)

\* verifyAny whose loop starts at the second key.
verifyAnySkipsFirst(keys, msg, sig, opts) ==
    \E i \in 2..Len(keys) : VerifyWithOptions(keys[i], msg, sig, opts)

RECURSIVE verifyAny(_, _, _, _)
verifyAny(keys, msg, sig, opts) ==
    IF keys = <<>> THEN FALSE
    ELSE IF VerifyWithOptions(Head(keys), msg, sig, opts) THEN TRUE
    ELSE verifyAny(Tail(keys), msg, sig, opts)

\* parseSigningKeys without the check for an empty key list.
RECURSIVE parseSigningKeysAllowsEmpty(_, _)
parseSigningKeysAllowsEmpty(raw, keys) ==
    IF Len(raw) > 0
    THEN LET p == parsePublicKey(raw)
         IN  IF p.err # "nil"
             THEN [err |-> p.err, keys |-> <<>>]
             ELSE parseSigningKeysAllowsEmpty(p.rest, Append(keys, p.pub))
    ELSE [err |-> "nil", keys |-> keys]

ErrNoKeys == "no signing keys found"

\* The loop of signingKeys over the bundle, lines 183-195.
RECURSIVE parseSigningKeys(_, _)
parseSigningKeys(raw, keys) ==
    IF Len(raw) > 0
    THEN LET p == parsePublicKey(raw)
         IN  IF p.err # "nil"
             THEN [err |-> p.err, keys |-> <<>>]
             ELSE parseSigningKeys(p.rest, Append(keys, p.pub))
    ELSE IF Len(keys) = 0
    THEN [err |-> ErrNoKeys, keys |-> <<>>]
    ELSE [err |-> "nil", keys |-> keys]

\* fetch that reads one byte less than the limit, and fetch without a limit.
fetchOffByOne(body, limit) == LimitReader(body, limit - 1)
fetchUnlimited(body, limit) == body

\* fetch: io.ReadAll(io.LimitReader(resp.Body, limit))
fetch(body, limit) == LimitReader(body, limit)

\* TeeCopy with the hash fed from the response body, not from the limited
\* reader.
TeeCopyHashesBody(body, limit) == [f |-> LimitReader(body, limit), h |-> body]

\* The copy without the LimitReader: the whole body reaches the hash and the
\* file.
TeeCopyUnlimited(body, limit) == [f |-> body, h |-> body]

\* io.Copy(f, io.TeeReader(io.LimitReader(resp.Body, limit), h)) run to the
\* end of the body: every chunk read from the limited reader is written to
\* the hash h by the TeeReader and then to the file f by io.Copy.
TeeCopy(body, limit) ==
    LET r == LimitReader(body, limit)
    IN  [f |-> r, h |-> r]


\* ------------------------------------------------------------ state
VARIABLES
    server,   \* "untrusted": one call, any response; "honest": calls to a
              \* publisher that rotates its keys
    roots,    \* Client.roots
    pc,       \* where the Download call in progress stands; "blocked":
              \* inside a read that the server does not complete
    raw,      \* signingKeys: the bundle bytes read
    rawSig,   \* signingKeys: the bundle signature read
    sigPub,   \* Download: the signing keys signingKeys returned
    hash,     \* Download: the digest download returned
    sig,      \* Download: the artifact signature read
    ret,      \* what Download returned
    fs,       \* the file at dstPath
    fs0,      \* the file at dstPath when the call in progress began
    net,      \* the requests of this call and what the server answered
    calls,    \* completed calls
    prev,     \* the signatures the last successful earlier call accepted
    conc,     \* Download calls running concurrently on one Client: the base
              \* URL of the Client, the files by path, the locals of each call
    sgn,      \* the builder: the key pair generated, the Signer made of it,
              \* what it signed, and the verifications made of that
    cache,    \* package cache: one Memory or Disk cache, the clock, the file
              \* of the Disk cache, and what the last operation did
    cn,       \* package kube: the conditions of a Connector, the clock, and
              \* what the last call on the conditions was
    fwd,      \* package netutil: the arguments of a CheckIPForwarding call,
              \* the sysctl values it reads, and what it returns
    rc        \* the ConnectorReconciler: the Connectors of the API server,
              \* the resources of their subnet routers, subnetRouters, the
              \* gauge, the mutex, and the locals of each Reconcile call

vars ==
    <<server, roots, pc, raw, rawSig, sigPub, hash, sig, ret, fs, fs0, net, calls,
      prev, conc, sgn, cache, cn, fwd, rc>>

\* The variables of the one-call-at-a-time client.
seqVars ==
    <<server, pc, raw, rawSig, sigPub, hash, sig, ret, fs, fs0, net, calls, prev>>

\* The variables of package distsign, and those of the other packages.
distVars == <<roots, seqVars, conc, sgn>>
pkgVars == <<cache, cn, fwd, rc>>

KeyURL == "distsign.pub"
KeySigURL == "distsign.pub.sig"
SrcURL == "srcPath"
SigURL == "srcPath.sig"

ErrTransport == "http.Get"
ErrRootSignature == "does not validate with any known root key"
ErrSignature == "does not validate with the current release signing key"
ErrCreate == "os.Create"
ErrCopy == "io.Copy"
ErrClose == "f.Close"

\* ErrorText for an artifact verification error that names the signature
\* URL only.
ErrorTextOmitsSrc(e) ==
    IF e = ErrSignature
    THEN <<"signature ", SigURL,
           " does not validate with the current release signing key">>
    ELSE <<e>>

\* The text of an error value: the pieces fmt.Errorf puts together.
ErrorText(e) ==
    CASE e = ErrSignature ->
            <<"signature ", SigURL, " for key ", SrcURL,
              " does not validate with the current release signing key">>
      [] e = ErrRootSignature ->
            <<"signature ", KeySigURL, " for key ", KeyURL,
              " does not validate with any known root key">>
      [] e = ErrNoKeys -> <<"no signing keys found at ", KeyURL>>
      [] OTHER -> <<e>>

\* The file at dstPath: whether it exists, its bytes, and whether the
\* handle download created on it is still open.
NoFile == [exists |-> FALSE, data |-> <<>>, open |-> FALSE]
File(b) == [exists |-> TRUE, data |-> b, open |-> FALSE]

\* os.Create(dst) followed by the writes of the bytes b.
Created(b) == [exists |-> TRUE, data |-> b, open |-> TRUE]

\* f.Close() that leaves the handle open.
CloseLeavesOpen(f) == f

\* f.Close(), explicit or deferred: the handle is released, also when Close
\* reports an error.
Close(f) == [f EXCEPT !.open = FALSE]

NoPrev == [rawSig |-> <<>>, sig |-> <<>>]

\* One request of the call: whether http.Get or the read of the body
\* returned an error, the body the server sent, and how the copy to the
\* file went ("none", "create", "copy", "close", or "stall": the body
\* stopped arriving).
Exchange(url, err, body, fsErr) ==
    [url |-> url, err |-> err, body |-> body, fsErr |-> fsErr]

\* The server took the request and sends nothing: http.Get(url), made with
\* http.DefaultClient and no context, has not returned.
Stalled(url) == Exchange(url, FALSE, <<>>, "stall")

\* ------------------------------------------------------------ inputs
\* The sequences that list some of the numbers S once each, in order.
OrderedSets(S) ==
    UNION {{s \in [1..m -> S] : \A i, j \in 1..m : i < j => s[i] < s[j]} :
              m \in 0..Cardinality(S)}

\* The trust stores a client release may embed.
RootChoices ==
    {[i \in 1..Len(s) |-> <<PubBytes(s[i])>>] : s \in OrderedSets(RootIds)}

\* distsign.pub as the builder publishes it: PEM blocks joined by newlines.
RECURSIVE Bundle(_)
Bundle(ks) ==
    IF ks = <<>> THEN <<>>
    ELSE IF Len(ks) = 1 THEN <<GenerateKeyPub(ks[1])>>
    ELSE <<GenerateKeyPub(Head(ks)), NL>> \o Bundle(Tail(ks))

HonestBundles == {Bundle(ks) : ks \in OrderedSets(SigningIds) \ {<<>>}}

FirstSigningKey == NumRootKeys + 1
GoodBlock == GenerateKeyPub(FirstSigningKey)
\* A block whose base64 text does not decode, one with the wrong tag, one
\* whose key is a byte short.
UndecodableBlock == Pem(pemTypePublic, <<PubBytes(FirstSigningKey)>>, FALSE)
WrongTagBlock == Pem(pemTypePrivate, <<PubBytes(FirstSigningKey)>>, TRUE)
ShortKeyBlock ==
    Pem(pemTypePublic, <<Frag(PubBytes(FirstSigningKey), PublicKeySize - 1)>>, TRUE)
MalformedBlocks == {UndecodableBlock, WrongTagBlock, ShortKeyBlock}

MalformedBundles ==
    UNION {{<<m>>, <<GoodBlock, NL, m>>, <<m, NL, GoodBlock>>} : m \in MalformedBlocks}

Garbage == Run(65, 3)
\* Bundles longer than signingKeysSizeLimit: one whose cut leaves a tail of
\* newlines, one whose cut falls right behind a block.
OversizeBundles ==
    {<<GoodBlock, Run(10, signingKeysSizeLimit)>>,
     <<Run(10, signingKeysSizeLimit - SymLen(GoodBlock)), GoodBlock, Garbage>>}

UntrustedBundles ==
    HonestBundles \cup MalformedBundles \cup OversizeBundles
        \cup {<<>>, <<Garbage>>, <<GoodBlock, NL>>, <<Garbage, GoodBlock>>}

\* What a server may answer for a signature of msg.
Damaged(s, how) ==
    CASE how = "none" -> s
      [] how = "flip" -> <<SigSym(s[1].key, s[1].mode, s[1].msg, 1)>>
      [] how = "extend" -> s \o <<Run(0, 1)>>
      [] how = "short" -> LimitReader(s, signatureSizeLimit - 1)
      [] how = "other" -> <<SigSym(s[1].key, s[1].mode, <<Garbage>>, 0)>>

\* For a signature to be verified with opts: nothing, the signature of any
\* key in either mode, and the damaged signatures of any key in mode opts.
UntrustedSigs(msg, opts) ==
    {<<>>} \cup {Sign(k, msg, o) : k \in KeyIds, o \in Modes}
           \cup {Damaged(Sign(k, msg, opts), how) :
                    k \in KeyIds, how \in {"flip", "extend", "short", "other"}}

\* An artifact of five bytes; the same with its last byte changed; one of
\* exactly downloadSizeLimit bytes; one a byte longer.
Hello == <<Run(1, 5)>>
UntrustedArtifacts ==
    {Hello,
     <<Run(1, 4), Run(2, 1)>>,
     <<Run(0, downloadSizeLimit)>>,
     <<Run(0, downloadSizeLimit), Run(1, 1)>>}

KeyBodies == IF server = "honest" THEN HonestBundles ELSE UntrustedBundles
KeySigBodies(msg) ==
    IF server = "honest" THEN {Sign(k, msg, OptsPure) : k \in RootIds}
    ELSE UntrustedSigs(msg, OptsPure)
            \cup {Sign(k, SHA512(msg), OptsSHA512) : k \in RootIds}
SrcBodies == IF server = "honest" THEN {Hello} ELSE UntrustedArtifacts
SigBodies(body) ==
    IF server = "honest" THEN {Sign(k, SHA512(body), OptsSHA512) : k \in SigningIds}
    ELSE UntrustedSigs(SHA512(LimitReader(body, downloadSizeLimit)), OptsSHA512)
            \cup {Sign(k, SHA512(body), OptsSHA512) : k \in KeyIds}

\* Where io.Copy may stop when it fails: how many bytes reached the file.
PartialLens(data) == {0, Min(1, ByteLen(data))}

\* The builder before GenerateKey: no key files, no Signer, nothing signed.
\* kind tells what was signed ("bundle" or "package"), signed holds the
\* payload and the signature as signed, verdicts the verifications made.
\* file is the content of the key file NewSigner was pointed at, readErr
\* whether reading it failed.
NoSigner ==
    [pc |-> "start", priv |-> <<>>, pub |-> <<>>, key |-> <<>>, kind |-> "none",
     payload |-> <<>>, sig |-> <<>>, signed |-> <<>>, err |-> "nil",
     verdicts |-> <<>>, file |-> <<>>, readErr |-> FALSE]

\* The value of the variable of a package that a specification leaves out.
NotUsed == [pc |-> "none"]

\* No concurrent calls.
NoConc == [pkgsAddr |-> "", files |-> <<>>, call |-> <<>>]

\* ------------------------------------------------------------ operations
Init ==
    /\ server \in {"untrusted", "honest"}
    /\ roots \in RootChoices
    /\ pc = "idle"
    /\ raw = <<>>
    /\ rawSig = <<>>
    /\ sigPub = <<>>
    /\ hash = <<>>
    /\ sig = <<>>
    /\ ret = "none"
    /\ fs \in {NoFile, File(<<Garbage>>)}
    /\ fs0 = fs
    /\ net = <<>>
    /\ calls = 0
    /\ prev = NoPrev
    /\ conc = NoConc
    /\ sgn = NoSigner
    /\ cache = NotUsed
    /\ cn = NotUsed
    /\ fwd = NotUsed
    /\ rc = NotUsed

\* NewClient: a client release with the root keys it embeds.
NewClient ==
    /\ pc = "idle"
    /\ \E rs \in RootChoices : roots' = rs
    /\ UNCHANGED <<server, pc, raw, rawSig, sigPub, hash, sig, ret, fs, fs0, net, calls, prev, conc, sgn, pkgVars>>

\* Download calls signingKeys, which fetches distsign.pub.
FetchSigningKeys ==
    /\ pc = "idle"
    /\ calls < (IF server = "honest" THEN MaxCalls ELSE 1)
    /\ \/ /\ net' = <<Exchange(KeyURL, TRUE, <<>>, "none")>>
          /\ ret' = ErrTransport
          /\ pc' = "done"
          /\ raw' = raw
       \/ /\ net' = <<Stalled(KeyURL)>>
          /\ pc' = "blocked"
          /\ UNCHANGED <<raw, ret>>
       \/ \E body \in KeyBodies :
            /\ net' = <<Exchange(KeyURL, FALSE, body, "none")>>
            /\ raw' = fetch(body, signingKeysSizeLimit)
            /\ pc' = "signingKeys"
            /\ ret' = ret
    /\ fs0' = fs
    /\ UNCHANGED <<server, roots, rawSig, sigPub, hash, sig, fs, calls, prev, conc, sgn, pkgVars>>

\* signingKeys fetches distsign.pub.sig, validates the bundle against the
\* roots and parses it; an error of signingKeys is the error of Download.
VerifySigningKeys ==
    /\ pc = "signingKeys"
    /\ \/ /\ net' = Append(net, Exchange(KeySigURL, TRUE, <<>>, "none"))
          /\ ret' = ErrTransport
          /\ pc' = "done"
          /\ UNCHANGED <<rawSig, sigPub>>
       \/ /\ net' = Append(net, Stalled(KeySigURL))
          /\ pc' = "blocked"
          /\ UNCHANGED <<rawSig, sigPub, ret>>
       \/ \E body \in KeySigBodies(raw) :
            LET s == fetch(body, signatureSizeLimit)
                p == parseSigningKeys(raw, <<>>)
            IN  /\ net' = Append(net, Exchange(KeySigURL, FALSE, body, "none"))
                /\ rawSig' = s
                /\ IF ~verifyAny(roots, raw, s, OptsPure)
                   THEN ret' = ErrRootSignature /\ pc' = "done" /\ sigPub' = sigPub
                   ELSE IF p.err # "nil"
                   THEN ret' = p.err /\ pc' = "done" /\ sigPub' = sigPub
                   ELSE ret' = ret /\ pc' = "download" /\ sigPub' = p.keys
    /\ UNCHANGED <<server, roots, raw, hash, sig, fs, fs0, calls, prev, conc, sgn, pkgVars>>

\* download(srcURL, dstPath, downloadSizeLimit).
download ==
    /\ pc = "download"
    /\ \/ /\ net' = Append(net, Exchange(SrcURL, TRUE, <<>>, "none"))
          /\ ret' = ErrTransport
          /\ pc' = "done"
          /\ UNCHANGED <<fs, hash>>
       \/ /\ net' = Append(net, Stalled(SrcURL))
          /\ pc' = "blocked"
          /\ UNCHANGED <<fs, hash, ret>>
       \/ \E body \in SrcBodies :
            \E n \in PartialLens(LimitReader(body, downloadSizeLimit)) :
                /\ net' = Append(net, Exchange(SrcURL, FALSE, body, "stall"))
                /\ fs' = Created(LimitReader(body, n))
                /\ pc' = "blocked"
                /\ UNCHANGED <<hash, ret>>
       \/ \E body \in SrcBodies :
            /\ net' = Append(net, Exchange(SrcURL, FALSE, body, "create"))
            /\ ret' = ErrCreate
            /\ pc' = "done"
            /\ UNCHANGED <<fs, hash>>
       \/ \E body \in SrcBodies :
            \E n \in PartialLens(LimitReader(body, downloadSizeLimit)) :
                /\ net' = Append(net, Exchange(SrcURL, FALSE, body, "copy"))
                /\ fs' = Close(Created(LimitReader(body, n)))
                /\ ret' = ErrCopy
                /\ pc' = "done"
                /\ hash' = hash
       \/ \E body \in SrcBodies :
            /\ net' = Append(net, Exchange(SrcURL, FALSE, body, "close"))
            /\ fs' = Close(Created(TeeCopy(body, downloadSizeLimit).f))
            /\ ret' = ErrClose
            /\ pc' = "done"
            /\ hash' = hash
       \/ \E body \in SrcBodies :
            /\ net' = Append(net, Exchange(SrcURL, FALSE, body, "none"))
            /\ fs' = Close(Created(TeeCopy(body, downloadSizeLimit).f))
            /\ hash' = SHA512(TeeCopy(body, downloadSizeLimit).h)
            /\ pc' = "fetchSig"
            /\ ret' = ret
    /\ UNCHANGED <<server, roots, raw, rawSig, sigPub, sig, fs0, calls, prev, conc, sgn, pkgVars>>

\* Download fetches the artifact's signature and validates the digest
\* against the signing keys.
VerifyFile ==
    /\ pc = "fetchSig"
    /\ \/ /\ net' = Append(net, Exchange(SigURL, TRUE, <<>>, "none"))
          /\ ret' = ErrTransport
          /\ pc' = "done"
          /\ sig' = sig
       \/ /\ net' = Append(net, Stalled(SigURL))
          /\ pc' = "blocked"
          /\ UNCHANGED <<sig, ret>>
       \/ \E body \in SigBodies(net[3].body) :
            LET s == fetch(body, signatureSizeLimit)
            IN  /\ net' = Append(net, Exchange(SigURL, FALSE, body, "none"))
                /\ sig' = s
                /\ pc' = "done"
                /\ ret' = IF verifyAny(sigPub, hash, s, OptsSHA512)
                          THEN "nil" ELSE ErrSignature
    /\ UNCHANGED <<server, roots, raw, rawSig, sigPub, hash, fs, fs0, calls, prev, conc, sgn, pkgVars>>

\* Download has returned: its locals are gone, the file stays.
Return ==
    /\ pc = "done"
    /\ pc' = "idle"
    /\ raw' = <<>>
    /\ rawSig' = <<>>
    /\ sigPub' = <<>>
    /\ hash' = <<>>
    /\ sig' = <<>>
    /\ ret' = "none"
    /\ net' = <<>>
    /\ calls' = calls + 1
    /\ prev' = IF server = "honest" /\ ret = "nil"
               THEN [rawSig |-> rawSig, sig |-> sig] ELSE prev
    /\ fs0' = fs
    /\ UNCHANGED <<server, roots, fs, conc, sgn, pkgVars>>

Next ==
    \/ NewClient
    \/ FetchSigningKeys
    \/ VerifySigningKeys
    \/ download
    \/ VerifyFile
    \/ Return

Spec == Init /\ [][Next]_vars

\* A call that can take its next step takes it: the goroutine that runs
\* Download is scheduled, and each step includes the server's answer.
Fairness ==
    /\ WF_vars(VerifySigningKeys)
    /\ WF_vars(download)
    /\ WF_vars(VerifyFile)

LiveSpec == Spec /\ Fairness

\* ------------------------------------------------------------ the builder
\* Verifications made of one signed payload.
MaxVerify == 2

\* package cache: keys 0..MaxKey, instants 0..MaxTime.
MaxKey == 1
MaxTime == 2

\* package kube: generations 0..MaxGen, readings of the clock 0..MaxNow.
MaxGen == 1
MaxNow == 1

\* package netutil: the interfaces of a system other than lo.
NumIfaces == 2

\* the ConnectorReconciler: the Connectors have the UIDs 1..NumConnectors.
NumConnectors == 2

\* What a root key signs: a bundle of none, some or all signing keys.
SignableBundles == {Bundle(ks) : ks \in OrderedSets(SigningIds)}
\* What a signing key signs the digest of.
Packages == {Hello, <<>>}

SignInit ==
    /\ server = "honest"
    /\ roots = <<>>
    /\ pc = "idle"
    /\ raw = <<>>
    /\ rawSig = <<>>
    /\ sigPub = <<>>
    /\ hash = <<>>
    /\ sig = <<>>
    /\ ret = "none"
    /\ fs = NoFile
    /\ fs0 = NoFile
    /\ net = <<>>
    /\ calls = 0
    /\ prev = NoPrev
    /\ conc = NoConc
    /\ sgn = NoSigner
    /\ cache = NotUsed
    /\ cn = NotUsed
    /\ fwd = NotUsed
    /\ rc = NotUsed

\* GenerateKey: a new key pair, both halves PEM encoded, or the error of
\* the random source.
GenerateKey ==
    /\ sgn.pc = "start"
    /\ \/ sgn' = [sgn EXCEPT !.pc = "failed", !.err = "rand.Reader"]
       \/ \E k \in KeyIds :
            sgn' = [sgn EXCEPT !.pc = "keys",
                               !.priv = <<GenerateKeyPriv(k)>>,
                               !.pub = <<GenerateKeyPub(k)>>]
    /\ UNCHANGED <<roots, seqVars, conc, pkgVars>>

\* The contents a key file may have, given the private half GenerateKey
\* wrote as the block priv[1]: that block alone; nothing; text that is no
\* PEM; the block and a newline; the block twice; the block with base64
\* text that does not decode, with the tag of a public key, with a key one
\* byte short; the block behind a line of text, behind text on the same
\* line, and behind a block that does not decode.
KeyFiles(priv) ==
    LET b == priv[1]
    IN  {priv,
         <<>>,
         <<Garbage>>,
         <<b, NL>>,
         <<b, b>>,
         <<Pem(b.type, b.body, FALSE)>>,
         <<Pem(pemTypePublic, b.body, TRUE)>>,
         <<Pem(b.type, <<Cut(b.body[1], PrivateKeySize - 1)>>, TRUE)>>,
         <<Garbage, NL, b>>,
         <<Garbage, b>>,
         <<Pem(b.type, b.body, FALSE), b>>}

\* NewSigner(privKeyPath) on a key file.
NewSigner ==
    /\ sgn.pc = "keys"
    /\ \E data \in KeyFiles(sgn.priv) :
          \/ sgn' = [sgn EXCEPT !.pc = "failed", !.err = "os.ReadFile",
                                !.file = data, !.readErr = TRUE]
          \/ LET k == parsePrivateKey(data)
             IN  sgn' = IF k.err # "nil"
                        THEN [sgn EXCEPT !.pc = "failed", !.err = "failed to parse",
                                         !.file = data]
                        ELSE [sgn EXCEPT !.pc = "signer", !.key = k.key,
                                         !.file = data]
    /\ UNCHANGED <<roots, seqVars, conc, pkgVars>>

\* The Signer is used as a RootKey: it signs a bundle of signing keys.
RootSigns ==
    /\ sgn.pc = "signer"
    /\ \E b \in SignableBundles :
          LET r == SignSigningKeys(sgn.key, b)
          IN  sgn' = IF r.err # "nil"
                     THEN [sgn EXCEPT !.pc = "failed", !.err = r.err]
                     ELSE [sgn EXCEPT !.pc = "signed", !.kind = "bundle",
                                      !.payload = b, !.sig = r.sig,
                                      !.signed = [payload |-> b, sig |-> r.sig]]
    /\ UNCHANGED <<roots, seqVars, conc, pkgVars>>

\* The Signer is used as a SigningKey: it signs the SHA-512 digest of a
\* package, or is handed the package itself in place of the digest.
SigningKeySigns ==
    /\ sgn.pc = "signer"
    /\ \E a \in Packages, d \in {"digest", "package"} :
          LET r == SignPackageHash(sgn.key, IF d = "digest" THEN SHA512(a) ELSE a)
          IN  sgn' = IF r.err # "nil"
                     THEN [sgn EXCEPT !.pc = "failed", !.err = r.err]
                     ELSE [sgn EXCEPT !.pc = "signed", !.kind = "package",
                                      !.payload = a, !.sig = r.sig,
                                      !.signed = [payload |-> a, sig |-> r.sig]]
    /\ UNCHANGED <<roots, seqVars, conc, pkgVars>>

\* One byte of the signed payload, or of its signature, is changed.
Tamper ==
    /\ sgn.pc = "signed"
    /\ sgn.payload = sgn.signed.payload
    /\ sgn.sig = sgn.signed.sig
    /\ \/ \E i \in 1..Len(sgn.payload) :
            sgn' = [sgn EXCEPT !.payload[i] = Mod(@)]
       \/ sgn' = [sgn EXCEPT !.sig = Damaged(@, "flip")]
    /\ UNCHANGED <<roots, seqVars, conc, pkgVars>>

\* The verification step of the client on the payload and signature at hand,
\* with the public half GenerateKey wrote: line 178 for a bundle, lines 149
\* to 157 for a package.
Verify ==
    /\ sgn.pc = "signed"
    /\ Len(sgn.verdicts) < MaxVerify
    /\ LET p == parsePublicKey(sgn.pub)
           ok == IF sgn.kind = "bundle"
                 THEN verifyAny(<<p.pub>>, sgn.payload, sgn.sig, OptsPure)
                 ELSE verifyAny(<<p.pub>>, SHA512(sgn.payload), sgn.sig, OptsSHA512)
       IN  sgn' = [sgn EXCEPT !.verdicts =
                      Append(@, [payload |-> sgn.payload, sig |-> sgn.sig, ok |-> ok])]
    /\ UNCHANGED <<roots, seqVars, conc, pkgVars>>

SignNext ==
    \/ GenerateKey
    \/ NewSigner
    \/ RootSigns
    \/ SigningKeySigns
    \/ Tamper
    \/ Verify

SignSpec == SignInit /\ [][SignNext]_vars

\* ------------------------------------------------------------ concurrent calls
\* Download calls running at the same time on one Client, call p with the
\* destination path p.  The calls share the Client (roots, pkgsAddr) and the
\* file system; raw, sigPub, hash and sig are locals of each call.
NumCalls == 2
Procs == 1..NumCalls

BaseURL == "https://pkgs.tailscale.com"

\* c.url(path): c.pkgsAddr.JoinPath(path).String()
url(base, path) == <<base, path>>

Local0 ==
    [pc |-> "idle", raw |-> <<>>, rawSig |-> <<>>, sigPub |-> <<>>,
     hash |-> <<>>, sig |-> <<>>, ret |-> "none", net |-> <<>>,
     overlap |-> FALSE]

\* What the server publishes while the calls run: a bundle with one of the
\* signing keys (the publisher rotates them), signed by the first root key,
\* and one artifact signed by the first signing key.
ConcKeyBodies == {Bundle(<<k>>) : k \in SigningIds}
ConcKeySigBody(b) == Sign(1, b, OptsPure)
ConcSigBody(b) == Sign(FirstSigningKey, SHA512(b), OptsSHA512)

\* The signing keys call p verifies with, were they a field of the Client
\* that call 1 has set.
SharedSigPub(c, p) == c.call[1].sigPub

\* The signing keys call p verifies with: its own local sigPub.
LocalSigPub(c, p) == c.call[p].sigPub

\* Some other call than p is in progress.
OthersRunning(p) ==
    \E q \in Procs \ {p} : conc.call[q].pc \notin {"idle", "done"}

ConcInit ==
    /\ server = "honest"
    /\ roots \in RootChoices
    /\ pc = "idle"
    /\ raw = <<>>
    /\ rawSig = <<>>
    /\ sigPub = <<>>
    /\ hash = <<>>
    /\ sig = <<>>
    /\ ret = "none"
    /\ fs = NoFile
    /\ fs0 = NoFile
    /\ net = <<>>
    /\ calls = 0
    /\ prev = NoPrev
    /\ conc = [pkgsAddr |-> BaseURL,
               files |-> [p \in Procs |-> NoFile],
               call |-> [p \in Procs |-> Local0]]
    /\ sgn = NoSigner
    /\ cache = NotUsed
    /\ cn = NotUsed
    /\ fwd = NotUsed
    /\ rc = NotUsed

\* Call p: signingKeys fetches distsign.pub.
GoFetchSigningKeys(p) ==
    LET l == conc.call[p]
        u == url(conc.pkgsAddr, KeyURL)
    IN  /\ l.pc = "idle"
        /\ \/ conc' = [conc EXCEPT !.call[p] =
                  [l EXCEPT !.net = <<Exchange(u, TRUE, <<>>, "none")>>,
                            !.ret = ErrTransport,
                            !.pc = "done",
                            !.overlap = OthersRunning(p)]]
           \/ \E body \in ConcKeyBodies :
                conc' = [conc EXCEPT !.call[p] =
                  [l EXCEPT !.net = <<Exchange(u, FALSE, body, "none")>>,
                            !.raw = fetch(body, signingKeysSizeLimit),
                            !.pc = "signingKeys",
                            !.overlap = OthersRunning(p)]]
        /\ UNCHANGED <<roots, seqVars, sgn, pkgVars>>

\* Call p: signingKeys fetches distsign.pub.sig, validates and parses.
GoVerifySigningKeys(p) ==
    LET l == conc.call[p]
        u == url(conc.pkgsAddr, KeySigURL)
        body == ConcKeySigBody(l.raw)
        s == fetch(body, signatureSizeLimit)
        k == parseSigningKeys(l.raw, <<>>)
        n == Append(l.net, Exchange(u, FALSE, body, "none"))
    IN  /\ l.pc = "signingKeys"
        /\ conc' = [conc EXCEPT !.call[p] =
              IF ~verifyAny(roots, l.raw, s, OptsPure)
              THEN [l EXCEPT !.net = n, !.rawSig = s,
                             !.ret = ErrRootSignature, !.pc = "done"]
              ELSE IF k.err # "nil"
              THEN [l EXCEPT !.net = n, !.rawSig = s,
                             !.ret = k.err, !.pc = "done"]
              ELSE [l EXCEPT !.net = n, !.rawSig = s,
                             !.sigPub = k.keys, !.pc = "download"]]
        /\ UNCHANGED <<roots, seqVars, sgn, pkgVars>>

\* Call p: download(srcURL, dstPath, downloadSizeLimit) with dstPath = p.
Godownload(p) ==
    LET l == conc.call[p]
        u == url(conc.pkgsAddr, SrcURL)
        body == Hello
    IN  /\ l.pc = "download"
        /\ \/ \E n \in PartialLens(LimitReader(body, downloadSizeLimit)) :
                conc' = [conc EXCEPT
                  !.files[p] = Close(Created(LimitReader(body, n))),
                  !.call[p] =
                     [l EXCEPT !.net = Append(l.net, Exchange(u, FALSE, body, "copy")),
                               !.ret = ErrCopy,
                               !.pc = "done"]]
           \/ conc' = [conc EXCEPT
                  !.files[p] = Close(Created(TeeCopy(body, downloadSizeLimit).f)),
                  !.call[p] =
                     [l EXCEPT !.net = Append(l.net, Exchange(u, FALSE, body, "none")),
                               !.hash = SHA512(TeeCopy(body, downloadSizeLimit).h),
                               !.pc = "fetchSig"]]
        /\ UNCHANGED <<roots, seqVars, sgn, pkgVars>>

\* Call p: Download fetches the artifact's signature and validates.
GoVerifyFile(p) ==
    LET l == conc.call[p]
        u == url(conc.pkgsAddr, SigURL)
        body == ConcSigBody(l.net[3].body)
        s == fetch(body, signatureSizeLimit)
    IN  /\ l.pc = "fetchSig"
        /\ conc' = [conc EXCEPT !.call[p] =
              [l EXCEPT !.net = Append(l.net, Exchange(u, FALSE, body, "none")),
                        !.sig = s,
                        !.ret = IF verifyAny(LocalSigPub(conc, p), l.hash, s, OptsSHA512)
                                THEN "nil" ELSE ErrSignature,
                        !.pc = "done"]]
        /\ UNCHANGED <<roots, seqVars, sgn, pkgVars>>

ConcNext ==
    \E p \in Procs :
        \/ GoFetchSigningKeys(p)
        \/ GoVerifySigningKeys(p)
        \/ Godownload(p)
        \/ GoVerifyFile(p)

ConcSpec == ConcInit /\ [][ConcNext]_vars

\* ------------------------------------------------------------ package cache
\* K is an integer type, whose zero value is 0, and V is bool, whose zero
\* value is false.
zeroKey == 0
zeroVal == FALSE

\* A time.Time: the instant, and the location it is shown in.
Time(ns, loc) == [ns |-> ns, loc |-> loc]

\* time.Time{}.
ZeroTime == Time(0, "UTC")

\* Time.IsZero, Time.Before and Time.UTC look at the instant only.
IsZero(t) == t.ns = 0
Before(t, u) == t.ns < u.ns
UTC(t) == Time(t.ns, "UTC")

\* What a FillFunc can return: a value and the time it is good until (a
\* time made from the local clock, or the zero time), or an error, with
\* zeroes or with a value and a time next to it.
FillResults ==
    {[val |-> v, until |-> IF t = 0 THEN ZeroTime ELSE Time(t, "Local"),
      err |-> "nil"] : v \in BOOLEAN, t \in 0 .. MaxTime}
    \cup {[val |-> zeroVal, until |-> ZeroTime, err |-> "fill error"],
          [val |-> TRUE, until |-> Time(MaxTime, "Local"),
           err |-> "fill error"]}

\* The fields of a Memory or a Disk that was just made, with nothing stored.
ZeroCache ==
    [key |-> zeroKey, val |-> zeroVal, goodUntil |-> ZeroTime,
     ServeExpired |-> FALSE]

\* The file at the path of a Disk is missing, holds something json cannot
\* decode ("not json": an empty or a cut file among others), or holds the
\* JSON text of a diskValue, where the time is written in RFC 3339, which
\* names the instant and the offset of the location.
jsonMarshal(key, val, until) ==
    [kind |-> "json", Key |-> key, Value |-> val,
     Until |-> <<until.ns, until.loc>>]
jsonDecode(f) ==
    IF f.kind = "json"
    THEN [err |-> FALSE, Key |-> f.Key, Value |-> f.Value,
          Until |-> Time(f.Until[1], f.Until[2])]
    ELSE [err |-> TRUE, Key |-> zeroKey, Value |-> zeroVal,
          Until |-> ZeroTime]

\* Get of Memory and of Disk, up to the write of Disk: the fields after the
\* call, what it returns, and whether it called f.
GetKeepsFailedFill(c, key, now, f) ==
    IF c.key = key /\ Before(now, c.goodUntil)
    THEN [c |-> c, val |-> c.val, err |-> "nil", called |-> FALSE,
          filled |-> FALSE]
    ELSE IF f.err = "nil"
    THEN [c |-> [c EXCEPT !.key = key, !.val = f.val, !.goodUntil = f.until],
          val |-> f.val, err |-> "nil", called |-> TRUE, filled |-> TRUE]
    ELSE IF c.key = key /\ c.ServeExpired /\ ~IsZero(c.goodUntil)
    THEN [c |-> [c EXCEPT !.goodUntil = f.until], val |-> c.val,
          err |-> "nil", called |-> TRUE, filled |-> FALSE]
    ELSE [c |-> [c EXCEPT !.key = key, !.val = f.val], val |-> zeroVal,
          err |-> f.err, called |-> TRUE, filled |-> FALSE]
GetServesOtherKey(c, key, now, f) ==
    IF Before(now, c.goodUntil)
    THEN [c |-> c, val |-> c.val, err |-> "nil", called |-> FALSE,
          filled |-> FALSE]
    ELSE IF f.err = "nil"
    THEN [c |-> [c EXCEPT !.key = key, !.val = f.val, !.goodUntil = f.until],
          val |-> f.val, err |-> "nil", called |-> TRUE, filled |-> TRUE]
    ELSE IF c.ServeExpired /\ ~IsZero(c.goodUntil)
    THEN [c |-> c, val |-> c.val, err |-> "nil", called |-> TRUE,
          filled |-> FALSE]
    ELSE [c |-> c, val |-> zeroVal, err |-> f.err, called |-> TRUE,
          filled |-> FALSE]
GetResult(c, key, now, f) ==
    IF c.key = key /\ Before(now, c.goodUntil)
    THEN [c |-> c, val |-> c.val, err |-> "nil", called |-> FALSE,
          filled |-> FALSE]
    ELSE IF f.err = "nil"
    THEN [c |-> [c EXCEPT !.key = key, !.val = f.val, !.goodUntil = f.until],
          val |-> f.val, err |-> "nil", called |-> TRUE, filled |-> TRUE]
    ELSE IF c.key = key /\ c.ServeExpired /\ ~IsZero(c.goodUntil)
    THEN [c |-> c, val |-> c.val, err |-> "nil", called |-> TRUE,
          filled |-> FALSE]
    ELSE [c |-> c, val |-> zeroVal, err |-> f.err, called |-> TRUE,
          filled |-> FALSE]

\* Forget of Memory, and the assignments of Empty of Disk: the zero key, the
\* zero value and the zero time.
EmptiedKeepsExpiry(c) == [c EXCEPT !.key = zeroKey, !.val = zeroVal]
Emptied(c) ==
    [c EXCEPT !.goodUntil = ZeroTime, !.key = zeroKey, !.val = zeroVal]

\* write of Disk: the fields as JSON, the time in UTC, written to the path.
\* Every error is ignored: a WriteFile that cannot open the file leaves it as
\* it was ("not opened"), one that fails after opening it leaves a cut file.
write(c, file, outcome) ==
    CASE outcome = "written" -> jsonMarshal(c.key, c.val, UTC(c.goodUntil))
      [] outcome = "not opened" -> file
      [] outcome = "cut" -> [kind |-> "not json"]

\* NewDisk: the error of an Open that fails for another reason than a missing
\* file; the zero Disk for a missing file and for one json cannot decode; the
\* entry of the file otherwise.
NewDiskFailsOnBadFile(file, openErr) ==
    LET dv == jsonDecode(file)
    IN  IF file.kind = "missing" THEN [c |-> ZeroCache, err |-> "nil"]
        ELSE IF openErr THEN [c |-> ZeroCache, err |-> "open error"]
        ELSE IF dv.err THEN [c |-> ZeroCache, err |-> "json error"]
        ELSE [c |-> [key |-> dv.Key, val |-> dv.Value, goodUntil |-> dv.Until,
                     ServeExpired |-> FALSE],
              err |-> "nil"]
NewDiskResult(file, openErr) ==
    LET dv == jsonDecode(file)
    IN  IF file.kind = "missing" THEN [c |-> ZeroCache, err |-> "nil"]
        ELSE IF openErr THEN [c |-> ZeroCache, err |-> "open error"]
        ELSE IF dv.err THEN [c |-> ZeroCache, err |-> "nil"]
        ELSE [c |-> [key |-> dv.Key, val |-> dv.Value, goodUntil |-> dv.Until,
                     ServeExpired |-> FALSE],
              err |-> "nil"]

\* No Download, no concurrent calls and no builder.
DistIdle ==
    /\ server = "honest"
    /\ roots = <<>>
    /\ pc = "idle"
    /\ raw = <<>>
    /\ rawSig = <<>>
    /\ sigPub = <<>>
    /\ hash = <<>>
    /\ sig = <<>>
    /\ ret = "none"
    /\ fs = NoFile
    /\ fs0 = NoFile
    /\ net = <<>>
    /\ calls = 0
    /\ prev = NoPrev
    /\ conc = NoConc
    /\ sgn = NoSigner

\* timeNow(), or time.Now(): the reading of the clock.
timeNow == Time(cache.now, "Local")

\* A Memory literal, or the Disk that NewDisk made of the file at its path:
\* a missing file, one that does not decode, one that holds an entry.
\* out is what the last operation was and what it returned; stored tells
\* that the entry was stored by a fill of this Memory or Disk and not
\* forgotten since.  Of a Get, out also tells whether the entry stored
\* before it had not expired (valid) and whether it is the first operation
\* after Forget or Empty (emptied).
CacheInit ==
    /\ DistIdle
    /\ cn = NotUsed
    /\ fwd = NotUsed
    /\ rc = NotUsed
    /\ \/ cache = [impl |-> "Memory", c |-> ZeroCache, now |-> 1,
                   file |-> [kind |-> "missing"], stored |-> FALSE,
                   out |-> [did |-> "new"]]
       \/ \E file \in {[kind |-> "missing"], [kind |-> "not json"],
                        jsonMarshal(MaxKey, TRUE, Time(MaxTime, "UTC"))} :
            cache = [impl |-> "Disk", c |-> NewDiskResult(file, FALSE).c,
                     now |-> 1, file |-> file, stored |-> FALSE,
                     out |-> [did |-> "NewDisk", err |-> "nil",
                              opened |-> file.kind # "missing"]]

\* The clock comes to another reading: the clock of time.Now moves, and a
\* timeNow that is set returns what its owner makes it return.
SetTimeNow ==
    /\ \E t \in (1 .. MaxTime) \ {cache.now} : cache' = [cache EXCEPT !.now = t]
    /\ UNCHANGED <<distVars, cn, fwd, rc>>

\* The owner of the cache sets its exported field ServeExpired.
SetServeExpired ==
    /\ cache.out.did # "NewDisk failed"
    /\ \E b \in BOOLEAN :
         /\ b # cache.c.ServeExpired
         /\ cache' = [cache EXCEPT !.c.ServeExpired = b]
    /\ UNCHANGED <<distVars, cn, fwd, rc>>

\* Get(key, f), with the write of Disk after a fill.
Get ==
    /\ cache.out.did # "NewDisk failed"
    /\ \E key \in 0 .. MaxKey, f \in FillResults,
          w \in {"written", "not opened", "cut"} :
         LET r == GetResult(cache.c, key, timeNow, f)
             writes == cache.impl = "Disk" /\ r.filled
         IN  /\ writes \/ w = "written"
             /\ r.called \/ f.err = "fill error"
             /\ cache' =
                  [cache EXCEPT
                     !.c = r.c,
                     !.file = IF writes THEN write(r.c, cache.file, w) ELSE @,
                     !.stored = @ \/ r.filled,
                     !.out = [did |-> "Get", key |-> key, called |-> r.called,
                              ferr |-> IF r.called THEN f.err ELSE "nil",
                              val |-> r.val, err |-> r.err,
                              valid |-> Before(timeNow, cache.c.goodUntil),
                              emptied |-> cache.out.did \in {"Forget", "Empty"},
                              wrote |-> IF writes THEN w ELSE "no write"]]
    /\ UNCHANGED <<distVars, cn, fwd, rc>>

\* Forget() of Memory.
Forget ==
    /\ cache.impl = "Memory"
    /\ cache' = [cache EXCEPT !.c = Emptied(cache.c), !.stored = FALSE,
                              !.out = [did |-> "Forget"]]
    /\ UNCHANGED <<distVars, cn, fwd, rc>>

\* Empty() of Disk, with its write.
Empty ==
    /\ cache.impl = "Disk"
    /\ cache.out.did # "NewDisk failed"
    /\ \E w \in {"written", "not opened", "cut"} :
         cache' = [cache EXCEPT
                     !.c = Emptied(cache.c),
                     !.file = write(Emptied(cache.c), cache.file, w),
                     !.stored = FALSE,
                     !.out = [did |-> "Empty", wrote |-> w]]
    /\ UNCHANGED <<distVars, cn, fwd, rc>>

\* Forget(key) of Disk: Empty when key is the stored key, nothing otherwise.
ForgetKey ==
    /\ cache.impl = "Disk"
    /\ cache.out.did # "NewDisk failed"
    /\ \E key \in 0 .. MaxKey, w \in {"written", "not opened", "cut"} :
         IF cache.c.key # key
         THEN /\ w = "written"
              /\ cache' = [cache EXCEPT
                             !.out = [did |-> "Forget(key)", key |-> key,
                                      wrote |-> "no write"]]
         ELSE cache' = [cache EXCEPT
                          !.c = Emptied(cache.c),
                          !.file = write(Emptied(cache.c), cache.file, w),
                          !.stored = FALSE,
                          !.out = [did |-> "Forget(key)", key |-> key,
                                   wrote |-> w]]
    /\ UNCHANGED <<distVars, cn, fwd, rc>>

\* NewDisk on the path of the Disk: a new Disk replaces the one in use.
NewDisk ==
    /\ cache.impl = "Disk"
    /\ \E openErr \in BOOLEAN :
         LET r == NewDiskResult(cache.file, openErr)
         IN  /\ openErr => cache.file.kind # "missing"
             /\ cache' = [cache EXCEPT
                            !.c = r.c,
                            !.stored = FALSE,
                            !.out = [did |-> IF r.err = "nil" THEN "NewDisk"
                                             ELSE "NewDisk failed",
                                     err |-> r.err,
                                     opened |-> /\ ~openErr
                                                /\ cache.file.kind # "missing"]]
    /\ UNCHANGED <<distVars, cn, fwd, rc>>

CacheNext ==
    \/ SetTimeNow
    \/ SetServeExpired
    \/ Get
    \/ Forget
    \/ Empty
    \/ ForgetKey
    \/ NewDisk

CacheSpec == CacheInit /\ [][CacheNext]_vars

\* ---------------------------------------------- a Memory next to a Disk
\* Get of Disk with its write: the fields and the file after the call, what
\* it returns, and whether it called f.
DiskGetServesZeroExpiry(d, file, key, now, f, w) ==
    IF d.key = key /\ Before(now, d.goodUntil)
    THEN [d |-> d, file |-> file, val |-> d.val, err |-> "nil",
          called |-> FALSE]
    ELSE IF f.err = "nil"
    THEN LET filled == [d EXCEPT !.key = key, !.val = f.val,
                                 !.goodUntil = f.until]
         IN  [d |-> filled, file |-> write(filled, file, w), val |-> f.val,
              err |-> "nil", called |-> TRUE]
    ELSE IF d.key = key /\ d.ServeExpired
    THEN [d |-> d, file |-> file, val |-> d.val, err |-> "nil",
          called |-> TRUE]
    ELSE [d |-> d, file |-> file, val |-> zeroVal, err |-> f.err,
          called |-> TRUE]
DiskGet(d, file, key, now, f, w) ==
    IF d.key = key /\ Before(now, d.goodUntil)
    THEN [d |-> d, file |-> file, val |-> d.val, err |-> "nil",
          called |-> FALSE]
    ELSE IF f.err = "nil"
    THEN LET filled == [d EXCEPT !.key = key, !.val = f.val,
                                 !.goodUntil = f.until]
         IN  [d |-> filled, file |-> write(filled, file, w), val |-> f.val,
              err |-> "nil", called |-> TRUE]
    ELSE IF d.key = key /\ d.ServeExpired /\ ~IsZero(d.goodUntil)
    THEN [d |-> d, file |-> file, val |-> d.val, err |-> "nil",
          called |-> TRUE]
    ELSE [d |-> d, file |-> file, val |-> zeroVal, err |-> f.err,
          called |-> TRUE]

\* A Memory literal, c, and a Disk that NewDisk made of a path with no file
\* or with a file that does not decode, d, as the two caches of the tests:
\* they are given the same clock, the same ServeExpired and the same calls.
\* out tells what each returned to the last call.
EquivInit ==
    /\ DistIdle
    /\ cn = NotUsed
    /\ fwd = NotUsed
    /\ rc = NotUsed
    /\ \E file \in {[kind |-> "missing"], [kind |-> "not json"]},
          b \in BOOLEAN :
         cache = [impl |-> "Memory and Disk",
                  c |-> [ZeroCache EXCEPT !.ServeExpired = b],
                  d |-> [NewDiskResult(file, FALSE).c
                           EXCEPT !.ServeExpired = b],
                  now |-> 1, file |-> file, out |-> [did |-> "new"]]

\* The owner sets ServeExpired of both.
BothServeExpired ==
    /\ \E b \in BOOLEAN :
         /\ b # cache.c.ServeExpired
         /\ cache' = [cache EXCEPT !.c.ServeExpired = b,
                                   !.d.ServeExpired = b]
    /\ UNCHANGED <<distVars, cn, fwd, rc>>

\* Get(key, f) of both, f returning the same to both.
BothGet ==
    /\ \E key \in 0 .. MaxKey, f \in FillResults,
          w \in {"written", "not opened", "cut"} :
         LET m == GetResult(cache.c, key, timeNow, f)
             d == DiskGet(cache.d, cache.file, key, timeNow, f, w)
         IN  /\ (d.called /\ f.err = "nil") \/ w = "written"
             /\ (m.called \/ d.called) \/ f.err = "fill error"
             /\ cache' =
                  [cache EXCEPT
                     !.c = m.c,
                     !.d = d.d,
                     !.file = d.file,
                     !.out = [did |-> "Get", key |-> key,
                              ferr |-> f.err,
                              m |-> [val |-> m.val, err |-> m.err,
                                     called |-> m.called],
                              d |-> [val |-> d.val, err |-> d.err,
                                     called |-> d.called]]]
    /\ UNCHANGED <<distVars, cn, fwd, rc>>

\* Forget() of the Memory and Empty() of the Disk.
ForgetAndEmpty ==
    /\ \E w \in {"written", "not opened", "cut"} :
         cache' = [cache EXCEPT
                     !.c = Emptied(cache.c),
                     !.d = Emptied(cache.d),
                     !.file = write(Emptied(cache.d), cache.file, w),
                     !.out = [did |-> "Forget and Empty"]]
    /\ UNCHANGED <<distVars, cn, fwd, rc>>

EquivNext ==
    \/ SetTimeNow
    \/ BothServeExpired
    \/ BothGet
    \/ ForgetAndEmpty

EquivSpec == EquivInit /\ [][EquivNext]_vars

\* ------------------------------------------------------------ package kube
\* The condition types: ConnectorReady, and the SubnetRouterReady that the
\* documentation of ConnectorCondition names.
ConditionTypes == {"ConnectorReady", "SubnetRouterReady"}

\* metav1.ConditionStatus: ConditionTrue, ConditionFalse, ConditionUnknown.
ConditionStatuses == {"True", "False", "Unknown"}

\* The reasons and messages of the calls.
Reasons == {"someReason", "anotherReason"}
Messages == {"someMsg", "anotherMsg"}

\* A *metav1.Time is nil, <<>>, or a pointer to a time.
NewTime(t) == <<t>>

ConnectorCondition(type, status, reason, message, gen, ltt) ==
    [Type |-> type, Status |-> status, Reason |-> reason,
     Message |-> message, ObservedGeneration |-> gen,
     LastTransitionTime |-> ltt]

\* slices.IndexFunc(conds, Type == conditionType), counted from 1: 0 for -1.
IndexFunc(conds, conditionType) ==
    IF \E i \in DOMAIN conds : conds[i].Type = conditionType
    THEN CHOOSE i \in DOMAIN conds :
           /\ conds[i].Type = conditionType
           /\ \A j \in 1 .. (i - 1) : conds[j].Type # conditionType
    ELSE 0

\* The conditions after SetConnectorCondition.
SetConditionAlwaysNow(conds, conditionType, status, reason, message, gen, now) ==
    LET newCondition == ConnectorCondition(conditionType, status, reason,
                                           message, gen, NewTime(now))
        idx == IndexFunc(conds, conditionType)
    IN  IF idx = 0 THEN Append(conds, newCondition)
        ELSE [conds EXCEPT ![idx] = newCondition]
SetConditionAppends(conds, conditionType, status, reason, message, gen, now) ==
    LET newCondition == ConnectorCondition(conditionType, status, reason,
                                           message, gen, NewTime(now))
        idx == IndexFunc(conds, conditionType)
    IN  IF idx = 0 \/ conds[idx].Status # status
        THEN Append(conds, newCondition)
        ELSE [conds EXCEPT
                ![idx] = [newCondition EXCEPT
                            !.LastTransitionTime = conds[idx].LastTransitionTime]]
SetCondition(conds, conditionType, status, reason, message, gen, now) ==
    LET newCondition == ConnectorCondition(conditionType, status, reason,
                                           message, gen, NewTime(now))
        idx == IndexFunc(conds, conditionType)
    IN  IF idx = 0 THEN Append(conds, newCondition)
        ELSE IF conds[idx].Status = status
        THEN [conds EXCEPT
                ![idx] = [newCondition EXCEPT
                            !.LastTransitionTime = conds[idx].LastTransitionTime]]
        ELSE [conds EXCEPT ![idx] = newCondition]

\* slices.DeleteFunc(conds, Type == conditionType).
DeleteFunc(conds, conditionType) ==
    LET Keep(cond) == cond.Type # conditionType
    IN  SelectSeq(conds, Keep)

\* The variables of the packages other than kube.
notKube == <<distVars, cache, fwd, rc>>

\* A Connector read from the API server holds no condition, or one of a
\* type, with or without a lastTransitionTime.
ConnInit ==
    /\ DistIdle
    /\ cache = NotUsed
    /\ fwd = NotUsed
    /\ rc = NotUsed
    /\ \E conds \in
            {<<>>}
            \cup {<<ConnectorCondition("ConnectorReady", st, "someReason",
                                       "someMsg", 0, ltt)>> :
                    st \in {"True", "False"}, ltt \in {<<>>, NewTime(0)}} :
         cn = [Conditions |-> conds, now |-> 0, out |-> [did |-> "new"]]

\* The clock moves on.
ClockStep ==
    /\ cn.now < MaxNow
    /\ cn' = [cn EXCEPT !.now = @ + 1]
    /\ UNCHANGED notKube

SetConnectorCondition ==
    /\ \E conditionType \in ConditionTypes, status \in ConditionStatuses,
          reason \in Reasons, message \in Messages, gen \in 0 .. MaxGen :
         cn' = [cn EXCEPT
                  !.Conditions = SetCondition(@, conditionType, status, reason,
                                              message, gen, cn.now),
                  !.out = [did |-> "Set", Type |-> conditionType,
                           Status |-> status, Reason |-> reason,
                           Message |-> message, gen |-> gen]]
    /\ UNCHANGED notKube

RemoveConnectorCondition ==
    /\ \E conditionType \in ConditionTypes :
         cn' = [cn EXCEPT
                  !.Conditions = DeleteFunc(@, conditionType),
                  !.out = [did |-> "Remove", Type |-> conditionType]]
    /\ UNCHANGED notKube

ConnNext ==
    \/ ClockStep
    \/ SetConnectorCondition
    \/ RemoveConnectorCondition

ConnSpec == ConnInit /\ [][ConnNext]_vars

\* ------------------------------------------------------------ package netutil
\* The interfaces of an interfaces.State: lo and eth1 .. ethN.
lo == 0
IfaceNames == {lo} \cup (1 .. NumIfaces)

\* Routes: a prefix of a family, that is a single IP or not; a single IP has
\* the address "local", which an interface of the state can hold.
Route(fam, single) == [fam |-> fam, single |-> single]

\* The reads of a sysctl key end in the text of the key, or, "unreadable", in
\* an error of ReadFile and of both sysctl commands.

\* strconv.ParseBool of the trimmed text.
ParseBool(text) ==
    IF text \in {"1", "t", "T", "TRUE", "true", "True"}
    THEN [on |-> TRUE, err |-> FALSE]
    ELSE IF text \in {"0", "f", "F", "FALSE", "false", "False"}
    THEN [on |-> FALSE, err |-> FALSE]
    ELSE [on |-> FALSE, err |-> TRUE]

\* ipForwardingEnabledLinux on a key with the given value.
ipForwardingEnabledLinux(value) ==
    IF value = "unreadable" THEN [on |-> FALSE, err |-> "couldn't check"]
    ELSE IF ParseBool(value).err THEN [on |-> FALSE, err |-> "couldn't parse"]
    ELSE [on |-> ParseBool(value).on, err |-> "nil"]

\* protocolsRequiredForForwarding: a single-IP route to a local IP needs no
\* forwarding.
protocolsRequiredForForwarding(routes, state) ==
    LET Needs(r) == ~(r.single /\ r.fam \in state.InterfaceIPs)
    IN  [v4 |-> \E r \in routes : Needs(r) /\ r.fam = 4,
         v6 |-> \E r \in routes : Needs(r) /\ r.fam # 4]

\* The two results of CheckIPForwarding.  A warning tells the lines it is
\* made of, as a set: the interfaces of a state are ranged over in the order
\* of a Go map.
Nil == [kind |-> "nil", lines |-> {}]
Errorf(kind, lines) == [kind |-> kind, lines |-> lines]

\* CheckIPForwarding(routes, state) on goos, where interfaces.GetState
\* returns got and the sysctl keys hold v4, v6 and perIface.
CheckIPForwarding(goos, routes, state, got, v4, v6, perIface) ==
    IF goos # "linux"
    THEN IF goos \in {"dragonfly", "freebsd", "netbsd", "openbsd"}
         THEN [warn |-> Errorf("only work with additional manual configuration", {}),
               err |-> Nil]
         ELSE [warn |-> Nil, err |-> Nil]
    ELSE IF state.nil /\ got.nil
    THEN [warn |-> Nil, err |-> Errorf("interfaces.GetState", {})]
    ELSE
    LET st == IF state.nil THEN got ELSE state
        want == protocolsRequiredForForwarding(routes, st)
        v4e == ipForwardingEnabledLinux(v4)
        v6e == ipForwardingEnabledLinux(v6)
        ifaces == st.Interface \ {lo}
        each == [i \in ifaces |-> ipForwardingEnabledLinux(perIface[i])]
        warnings ==
            (IF want.v6 /\ ~v6e.on THEN {<<"IPv6 forwarding is disabled.">>}
             ELSE {})
            \cup {<<"won't be forwarded", i>> : i \in {j \in ifaces : ~each[j].on}}
        anyEnabled == \E i \in ifaces : each[i].on
        couldntCheck(e) ==
            Errorf("Couldn't check system's IP forwarding configuration", {e})
    IN  IF ~want.v4 /\ ~want.v6 THEN [warn |-> Nil, err |-> Nil]
        ELSE IF v4e.err # "nil" THEN [warn |-> Nil, err |-> couldntCheck(v4e.err)]
        ELSE IF v6e.err # "nil" THEN [warn |-> Nil, err |-> couldntCheck(v6e.err)]
        ELSE IF v4e.on /\ v6e.on THEN [warn |-> Nil, err |-> Nil]
        ELSE IF ~want.v4
        THEN IF ~v6e.on
             THEN [warn |-> Nil, err |-> Errorf("IPv6 forwarding is disabled", {})]
             ELSE [warn |-> Nil, err |-> Nil]
        ELSE IF \E i \in ifaces : each[i].err # "nil"
        THEN [warn |-> Nil, err |-> couldntCheck("an interface")]
        ELSE IF ~anyEnabled
        THEN [warn |-> Errorf("IP forwarding is disabled", {}), err |-> Nil]
        ELSE IF warnings # {}
        THEN [warn |-> Errorf("Subnet routes and exit nodes may not work correctly",
                              warnings),
              err |-> Nil]
        ELSE [warn |-> Nil, err |-> Nil]

\* An interfaces.State: its interfaces, and the families of which one of
\* them holds the address "local".  The nil state.
State(ifaces, ips) == [nil |-> FALSE, Interface |-> ifaces, InterfaceIPs |-> ips]
NilState == [nil |-> TRUE, Interface |-> {}, InterfaceIPs |-> {}]

\* The variables of the packages other than netutil.
notNetutil == <<distVars, cache, cn, rc>>

\* A call of CheckIPForwarding on a system.  On a system other than linux the
\* state and the sysctl keys are not looked at.
FwdInit ==
    /\ DistIdle
    /\ cache = NotUsed
    /\ cn = NotUsed
    /\ rc = NotUsed
    /\ \E goos \in {"linux", "freebsd", "darwin"},
          routes \in SUBSET {Route(fam, single) : fam \in {4, 6},
                                                  single \in BOOLEAN},
          state \in {State(ifaces, ips) : ifaces \in SUBSET IfaceNames \ {{}},
                                          ips \in {{}, {4}}},
          nilState \in BOOLEAN, getStateErr \in BOOLEAN,
          v4 \in {"1", "0", "2", "unreadable"},
          v6 \in {"1", "0", "2", "unreadable"},
          perIface \in [IfaceNames -> {"1", "0", "unreadable"}] :
         /\ goos # "linux" =>
              /\ state = State({lo, 1}, {})
              /\ ~getStateErr
              /\ v4 = "1" /\ v6 = "1"
              /\ \A i \in IfaceNames : perIface[i] = "1"
         /\ getStateErr =>
              /\ nilState
              /\ state = State({lo, 1}, {})
              /\ v4 = "1" /\ v6 = "1"
              /\ \A i \in IfaceNames : perIface[i] = "1"
         /\ perIface[lo] = "1"
         /\ \A i \in IfaceNames \ state.Interface : perIface[i] = "1"
         /\ fwd = [pc |-> "call", goos |-> goos, routes |-> routes,
                   state |-> IF nilState THEN NilState ELSE state,
                   got |-> IF getStateErr THEN NilState ELSE state,
                   v4 |-> v4, v6 |-> v6, perIface |-> perIface,
                   out |-> [warn |-> Nil, err |-> Nil]]

CallCheckIPForwarding ==
    /\ fwd.pc = "call"
    /\ fwd' = [fwd EXCEPT
                 !.pc = "done",
                 !.out = CheckIPForwarding(fwd.goos, fwd.routes, fwd.state,
                                           fwd.got, fwd.v4, fwd.v6,
                                           fwd.perIface)]
    /\ UNCHANGED notNetutil

FwdNext == CallCheckIPForwarding

FwdSpec == FwdInit /\ [][FwdNext]_vars

\* ------------------------------------------------ the ConnectorReconciler
shortRequeue == 5

\* The UIDs of the Connectors.
UIDs == 1 .. NumConnectors

\* What Reconcile returns: a reconcile.Result and an error.
Result(after, requeue, err) ==
    [RequeueAfter |-> after, Requeue |-> requeue, err |-> err]

\* A Connector of the API server: whether it has a DeletionTimestamp,
\* whether its Finalizers hold FinalizerName, and its Spec.SubnetRouter: nil,
\* set with no routes, or set with routes.  The object of a Connector that
\* is gone.
Connector(deleting, finalizer, spec) ==
    [exists |-> TRUE, deleting |-> deleting, finalizer |-> finalizer,
     spec |-> spec]
Gone == [exists |-> FALSE, deleting |-> FALSE, finalizer |-> FALSE,
         spec |-> "nil"]

\* One reconciler, no call running, nothing provisioned, and Connectors that
\* were just made.  Of the call of a Connector: pc is where the call is, cn
\* the Connector the call read (and wrote), done whether Cleanup reported
\* done in this call.  ret is what the call that returned last returned.
\* res tells whether resources of the subnet router of a
\* Connector exist; released holds the Connectors whose finalizer a
\* Reconcile call removed.
ReconInit ==
    /\ DistIdle
    /\ cache = NotUsed
    /\ cn = NotUsed
    /\ fwd = NotUsed
    /\ \E specs \in [UIDs -> {"nil", "no routes", "routes"}] :
         rc = [obj |-> [u \in UIDs |-> Connector(FALSE, FALSE, specs[u])],
               res |-> [u \in UIDs |-> FALSE],
               subnetRouters |-> {},
               gauge |-> 0,
               mu |-> 0,
               released |-> {},
               ret |-> Result(0, FALSE, "none"),
               p |-> [u \in UIDs |->
                        [pc |-> "idle", cn |-> Gone, done |-> FALSE]]]

\* The variables that the reconciler leaves alone.
notRecon == <<distVars, cache, cn, fwd>>

\* The call of Connector u returns: its locals are no more.
Returns(u, result) ==
    [rc EXCEPT !.p[u] = [pc |-> "idle", cn |-> Gone, done |-> FALSE],
               !.ret = result]

\* The deferred function of Reconcile: the update of the status, when it is
\* made and fails, replaces the error that Reconcile returns.
Deferred(result) ==
    {result, [result EXCEPT !.err = "status update"]}

\* Reconcile up to its first call after a.Get: the Connector is not found,
\* or a.Get fails, or the Connector is being deleted, or it is not.
Reconcile ==
    /\ \E u \in UIDs, getErr \in BOOLEAN :
         LET c == rc.obj[u]
         IN  /\ rc.p[u].pc = "idle"
             /\ rc' =
                  IF getErr THEN Returns(u, Result(0, FALSE, "failed to get"))
                  ELSE IF ~c.exists THEN Returns(u, Result(0, FALSE, "nil"))
                  ELSE IF c.deleting
                  THEN IF ~c.finalizer
                       THEN Returns(u, Result(0, FALSE, "nil"))
                       ELSE [rc EXCEPT
                               !.p[u].cn = c,
                               !.p[u].pc = IF c.spec # "nil" THEN "cleanup"
                                           ELSE "removeFinalizer"]
                  ELSE IF ~c.finalizer
                  THEN [rc EXCEPT !.p[u].cn = c, !.p[u].pc = "addFinalizer"]
                  ELSE [rc EXCEPT
                          !.p[u].cn = c,
                          !.p[u].pc = IF c.spec = "routes" THEN "lock"
                                      ELSE "cleanup"]
    /\ UNCHANGED notRecon

\* a.Update(ctx, cn) with the finalizer appended (lines 142-147).  The
\* update fails when the Connector changed since the call read it, and may
\* fail otherwise.
AddFinalizerGoesOn ==
    /\ \E u \in UIDs, ok \in BOOLEAN :
         LET c == [rc.p[u].cn EXCEPT !.finalizer = TRUE]
         IN  /\ rc.p[u].pc = "addFinalizer"
             /\ ok => rc.obj[u] = rc.p[u].cn
             /\ rc' = [rc EXCEPT
                          !.obj[u] = IF ok THEN c ELSE @,
                          !.p[u].cn = c,
                          !.p[u].pc = IF c.spec = "routes" THEN "lock"
                                      ELSE "cleanup"]
    /\ UNCHANGED notRecon
AddFinalizer ==
    /\ \E u \in UIDs, ok \in BOOLEAN :
         LET c == [rc.p[u].cn EXCEPT !.finalizer = TRUE]
         IN  /\ rc.p[u].pc = "addFinalizer"
             /\ ok => rc.obj[u] = rc.p[u].cn
             /\ IF ok
                THEN rc' = [rc EXCEPT
                              !.obj[u] = c,
                              !.p[u].cn = c,
                              !.p[u].pc = IF c.spec = "routes" THEN "lock"
                                          ELSE "cleanup"]
                ELSE \E result \in
                          Deferred(Result(0, FALSE, "failed to add finalizer")) :
                       rc' = Returns(u, result)
    /\ UNCHANGED notRecon

\* a.ssr.Cleanup in maybeCleanupSubnetRouter, and what Reconcile does when
\* it fails or is not done.  When Cleanup reports done no resource is left.
Cleanup ==
    /\ \E u \in UIDs, outcome \in {"error", "not done", "done"} :
         /\ rc.p[u].pc = "cleanup"
         /\ CASE outcome = "done" ->
                  rc' = [rc EXCEPT !.res[u] = FALSE,
                                   !.p[u].done = TRUE,
                                   !.p[u].pc = "lock"]
              [] outcome = "error" ->
                  \E result \in
                       IF rc.p[u].cn.deleting
                       THEN {Result(0, FALSE, "failed to cleanup")}
                       ELSE Deferred(Result(0, FALSE, "failed to cleanup")) :
                    rc' = Returns(u, result)
              [] outcome = "not done" ->
                  \E result \in
                       IF rc.p[u].cn.deleting
                       THEN {Result(shortRequeue, FALSE, "nil")}
                       ELSE Deferred(Result(0, TRUE, "nil")) :
                    rc' = Returns(u, result)
    /\ UNCHANGED notRecon

\* a.mu.Lock().
Lock ==
    /\ \E u \in UIDs :
         /\ rc.p[u].pc = "lock"
         /\ rc.mu = 0
         /\ rc' = [rc EXCEPT !.mu = u, !.p[u].pc = "locked"]
    /\ UNCHANGED notRecon

\* set.Slice[types.UID], the type of subnetRouters: a set that holds an
\* element once however often it is added; Len is the number of its
\* elements. Its code is in util/set, outside the sources at hand.
SliceAdd(s, e) == s \cup {e}
SliceRemove(s, e) == s \ {e}
SliceLen(s) == Cardinality(s)

\* a.subnetRouters.Add(cn.UID) in maybeProvisionSubnetRouter, and
\* a.subnetRouters.Remove(cn.UID) in maybeCleanupSubnetRouter.
AddOrRemove ==
    /\ \E u \in UIDs :
         /\ rc.p[u].pc = "locked"
         /\ rc' = [rc EXCEPT
                      !.subnetRouters = IF rc.p[u].done
                                        THEN SliceRemove(@, u)
                                        ELSE SliceAdd(@, u),
                      !.p[u].pc = "gauge"]
    /\ UNCHANGED notRecon

\* gaugeSubnetRouterResources.Set(int64(a.subnetRouters.Len())).
GaugeAdd ==
    /\ \E u \in UIDs :
         /\ rc.p[u].pc = "gauge"
         /\ rc' = [rc EXCEPT !.gauge = IF rc.p[u].done THEN @ - 1 ELSE @ + 1,
                             !.p[u].pc = "unlock"]
    /\ UNCHANGED notRecon
GaugeSet ==
    /\ \E u \in UIDs :
         /\ rc.p[u].pc = "gauge"
         /\ rc' = [rc EXCEPT !.gauge = SliceLen(rc.subnetRouters),
                             !.p[u].pc = "unlock"]
    /\ UNCHANGED notRecon

\* a.mu.Unlock(), and what follows: Provision after Add; after Remove the
\* removal of the finalizer of a Connector being deleted, or the return.
Unlock ==
    /\ \E u \in UIDs :
         /\ rc.p[u].pc = "unlock"
         /\ IF ~rc.p[u].done
            THEN rc' = [rc EXCEPT !.mu = 0, !.p[u].pc = "provision"]
            ELSE IF rc.p[u].cn.deleting
            THEN rc' = [rc EXCEPT !.mu = 0, !.p[u].pc = "removeFinalizer"]
            ELSE \E result \in Deferred(Result(0, FALSE, "nil")) :
                   rc' = [Returns(u, result) EXCEPT !.mu = 0]
    /\ UNCHANGED notRecon

\* nameForSubnetRouter and a.ssr.Provision (lines 246-266), and the return
\* of Reconcile.  A Provision that fails may have made resources.
Provision ==
    /\ \E u \in UIDs, ok \in BOOLEAN, made \in BOOLEAN :
         /\ rc.p[u].pc = "provision"
         /\ ok => made
         /\ \E result \in
                  Deferred(Result(0, FALSE,
                                  IF ok THEN "nil" ELSE "failed to provision")) :
              rc' = [Returns(u, result) EXCEPT !.res[u] = @ \/ made]
    /\ UNCHANGED notRecon

\* a.Update(ctx, cn) with the finalizer taken out (lines 110-115): the API
\* server then removes the Connector, which is being deleted, unless
\* another finalizer holds it.
RemoveFinalizer ==
    /\ \E u \in UIDs, ok \in BOOLEAN :
         /\ rc.p[u].pc = "removeFinalizer"
         /\ ok => rc.obj[u] = rc.p[u].cn
         /\ IF ok
            THEN \E c \in {Gone, [rc.obj[u] EXCEPT !.finalizer = FALSE]} :
                   rc' = [Returns(u, Result(0, FALSE, "nil")) EXCEPT
                            !.obj[u] = c,
                            !.released = @ \cup {u}]
            ELSE rc' = Returns(u, Result(0, FALSE, "failed to update"))
    /\ UNCHANGED notRecon

\* The owner of a Connector changes its Spec.SubnetRouter.
EditSpec ==
    /\ \E u \in UIDs, spec \in {"nil", "no routes", "routes"} :
         /\ rc.obj[u].exists
         /\ spec # rc.obj[u].spec
         /\ rc' = [rc EXCEPT !.obj[u].spec = spec]
    /\ UNCHANGED notRecon

\* The owner deletes a Connector: the API server sets its DeletionTimestamp
\* when it has the finalizer of the reconciler or another one, and removes
\* it otherwise.
Delete ==
    /\ \E u \in UIDs :
         /\ rc.obj[u].exists
         /\ ~rc.obj[u].deleting
         /\ \E c \in {Gone, [rc.obj[u] EXCEPT !.deleting = TRUE]} :
              /\ rc.obj[u].finalizer => c.exists
              /\ rc' = [rc EXCEPT !.obj[u] = c]
    /\ UNCHANGED notRecon

ReconNext ==
    \/ Reconcile
    \/ AddFinalizer
    \/ Cleanup
    \/ Lock
    \/ AddOrRemove
    \/ GaugeSet
    \/ Unlock
    \/ Provision
    \/ RemoveFinalizer
    \/ EditSpec
    \/ Delete

ReconSpec == ReconInit /\ [][ReconNext]_vars

\* ------------------------------------------------------------ properties
Range(f) == {f[i] : i \in DOMAIN f}

Returned == pc = "done"
Failed == pc = "done" /\ ret \notin {"nil", "none"}

\* Request i of the call in progress was answered in full (no transport
\* error, no stall).
Answered(i) == Len(net) >= i /\ ~net[i].err /\ net[i].fsErr # "stall"

\* Signature bytes s are the signature key pair k made of msg in mode opts.
MadeBy(s, k, msg, opts) == s = <<SigSym(k, opts, msg, 0)>>

\* Some key of the trust store rs made signature s over the bytes b, raw mode.
RootValidates(rs, b, s) ==
    \E k \in KeyIds : <<PubBytes(k)>> \in Range(rs) /\ MadeBy(s, k, b, OptsPure)

IsPublicKeyBlock(s) ==
    /\ s.t = "pem"
    /\ s.ok
    /\ s.type = pemTypePublic
    /\ ByteLen(s.body) = PublicKeySize

\* The public keys the bundle bytes b list.
ListedKeys(b) == {b[i].body : i \in {j \in 1..Len(b) : IsPublicKeyBlock(b[j])}}

\* C1: Download returns success only if the bundle bytes it fetched carry the
\* raw-mode signature of a root key of the client, and the SHA-512 digest of
\* the bytes now at dstPath carries the pre-hashed signature, as fetched, of a
\* key parsed from that same bundle.
C1_SuccessOnlyIfVerified ==
    (Returned /\ ret = "nil") =>
        /\ Len(net) = 4
        /\ raw = LimitReader(net[1].body, signingKeysSizeLimit)
        /\ RootValidates(roots, raw, rawSig)
        /\ fs.exists
        /\ fs.data = LimitReader(net[3].body, downloadSizeLimit)
        /\ Range(sigPub) \subseteq ListedKeys(raw)
        /\ \E k \in KeyIds :
              /\ <<PubBytes(k)>> \in Range(sigPub)
              /\ MadeBy(sig, k, <<Sha(fs.data)>>, OptsSHA512)

C1_Witness ==
    /\ Returned
    /\ ret = "nil"
    /\ server = "untrusted"
    /\ ByteLen(net[3].body) > downloadSizeLimit

\* C2: when no root key validates the fetched bundle, Download has failed
\* after two requests, the artifact and its signature were not requested,
\* and the file at dstPath is what it was when the call began.
C2_UntrustedBundleAborts ==
    (Answered(2) /\ ~RootValidates(roots, raw, rawSig)) =>
        /\ Failed
        /\ ret = ErrRootSignature
        /\ Len(net) = 2
        /\ \A i \in 1..Len(net) : net[i].url \notin {SrcURL, SigURL}
        /\ fs = fs0

C2_Witness ==
    /\ Answered(2)
    /\ ~RootValidates(roots, raw, rawSig)
    /\ Failed
    /\ fs = File(<<Garbage>>)
    /\ roots # <<>>
    /\ rawSig # <<>>

\* C3: once the bundle and its signature are read, signingKeys passes root
\* verification iff a key of the trust store made the signature over the raw
\* bundle bytes; an empty trust store accepts nothing.
C3_AcceptedIffRootSigned ==
    Answered(2) =>
        /\ (ret # ErrRootSignature) <=> RootValidates(roots, raw, rawSig)
        /\ (roots = <<>>) => (ret = ErrRootSignature)

\* The bundle and signature an earlier client accepted are rejected by a
\* client whose trust store no longer holds the signer and is not empty.
C3_Witness ==
    /\ Returned
    /\ ret = ErrRootSignature
    /\ rawSig # <<>>
    /\ prev.rawSig = rawSig
    /\ rawSig[1].msg = raw
    /\ Len(roots) = 1

\* C4: with N >= 1 signing keys, the artifact verification step accepts iff
\* one of them, at any position, made the fetched signature over the SHA-512
\* digest of the artifact bytes in pre-hashed mode; if none did it rejects.
C4_ArtifactAnyOf ==
    (Returned /\ Answered(4)) =>
        /\ Len(sigPub) >= 1
        /\ (ret = "nil") <=>
              \E i \in 1..Len(sigPub) : \E k \in KeyIds :
                  /\ sigPub[i] = <<PubBytes(k)>>
                  /\ MadeBy(sig, k, SHA512(fs.data), OptsSHA512)
        /\ ret \in {"nil", ErrSignature}

C4_Witness ==
    /\ Returned
    /\ ret = "nil"
    /\ Len(sigPub) = 2
    /\ sigPub[2] = <<PubBytes(sig[1].key)>>

\* No block of the bundle bytes b is a well formed public key.
ZeroKeys(b) == ListedKeys(b) = {}

\* C5: a bundle a trusted root key signed that holds zero public keys makes
\* Download fail right after the two bundle requests: no artifact is
\* requested, written or accepted.
C5_EmptyBundleRejected ==
    (Answered(2) /\ RootValidates(roots, raw, rawSig) /\ ZeroKeys(raw)) =>
        /\ Failed
        /\ Len(net) = 2
        /\ fs = fs0
        /\ sigPub = <<>>

C5_Witness ==
    /\ Answered(2)
    /\ RootValidates(roots, raw, rawSig)
    /\ raw = <<>>
    /\ ret = "no signing keys found"

\* A PEM block that is no well formed public key: it does not decode, has
\* the wrong tag or a key of the wrong length.
IsMalformedBlock(s) == s.t = "pem" /\ ~IsPublicKeyBlock(s)

\* C6: a root-signed bundle with a malformed block makes signingKeys fail
\* and yield no keys, whatever valid blocks it also holds, and Download
\* stops after the two bundle requests.
C6_MalformedBlockRejectsBundle ==
    (/\ Answered(2)
     /\ RootValidates(roots, raw, rawSig)
     /\ \E i \in 1..Len(raw) : IsMalformedBlock(raw[i])) =>
        /\ Failed
        /\ sigPub = <<>>
        /\ Len(net) = 2

\* C7: every call starts by requesting the bundle and verifies the artifact
\* with exactly the keys of the bundle it read itself: an artifact whose
\* signer that bundle does not list is rejected, whatever earlier calls
\* accepted.
C7_FreshKeysEveryCall ==
    /\ pc # "idle" => (net[1].url = KeyURL /\ (Len(net) >= 2 => net[2].url = KeySigURL))
    /\ Answered(3) => Range(sigPub) = ListedKeys(LimitReader(net[1].body, signingKeysSizeLimit))
    /\ (/\ Returned
        /\ Answered(4)
        /\ \E k \in KeyIds :
              /\ MadeBy(sig, k, hash, OptsSHA512)
              /\ <<PubBytes(k)>> \notin
                    ListedKeys(LimitReader(net[1].body, signingKeysSizeLimit)))
       => ret = ErrSignature

\* The artifact signature an earlier call accepted is rejected by this one.
C7_Witness ==
    /\ Returned
    /\ ret = ErrSignature
    /\ sig # <<>>
    /\ prev.sig = sig
    /\ MadeBy(sig, sig[1].key, hash, OptsSHA512)

\* Exchange i of the call in progress is what an honest server answers, with
\* no transport or file-system error.
HonestExchange(i) ==
    /\ ~net[i].err
    /\ net[i].fsErr = "none"
    /\ CASE i = 1 ->
              /\ \E ks \in OrderedSets(SigningIds) \ {<<>>} :
                    net[1].body = Bundle(ks)
              /\ ByteLen(net[1].body) <= signingKeysSizeLimit
         [] i = 2 ->
              \E k \in KeyIds :
                  /\ <<PubBytes(k)>> \in Range(roots)
                  /\ net[2].body = Sign(k, net[1].body, OptsPure)
         [] i = 3 -> ByteLen(net[3].body) <= downloadSizeLimit
         [] i = 4 ->
              \E k \in KeyIds :
                  /\ <<PubBytes(k)>> \in ListedKeys(net[1].body)
                  /\ net[4].body = Sign(k, SHA512(net[3].body), OptsSHA512)

\* Exchange 4 is the honest signature with one byte changed.
FlippedSignature ==
    /\ ~net[4].err
    /\ \E k \in KeyIds :
          /\ <<PubBytes(k)>> \in ListedKeys(net[1].body)
          /\ net[4].body = Damaged(Sign(k, SHA512(net[3].body), OptsSHA512), "flip")

\* C8: while the server answers honestly and nothing fails, Download does
\* not fail, and it returns success after four requests with dstPath holding
\* exactly the artifact bytes; with one byte of the .sig response changed it
\* fails with the artifact verification error.
C8_HonestDownloadSucceeds ==
    /\ (\A i \in 1..Len(net) : HonestExchange(i)) =>
          /\ ret \in {"none", "nil"}
          /\ Returned => (Len(net) = 4 /\ ret = "nil" /\ fs = File(net[3].body))
    /\ (/\ Returned
        /\ Len(net) = 4
        /\ \A i \in 1..3 : HonestExchange(i)
        /\ FlippedSignature)
       => ret = ErrSignature

C8_Witness ==
    /\ Returned
    /\ Len(net) = 4
    /\ \A i \in 1..4 : HonestExchange(i)
    /\ net[3].body = Hello
    /\ ret = "nil"
    /\ fs = File(Hello)

\* C9: a signature response whose length is not the signature size is
\* rejected: the bundle is not accepted and Download does not succeed.
C9_SignatureLengthExact ==
    /\ (Answered(2) /\ ByteLen(net[2].body) # signatureSizeLimit) => Failed
    /\ (Returned /\ Answered(4) /\ ByteLen(net[4].body) # signatureSizeLimit)
          => ret # "nil"

\* The limit of request i, and what the call holds of its response.
Limit(i) ==
    CASE i = 1 -> signingKeysSizeLimit
      [] i = 2 -> signatureSizeLimit
      [] i = 3 -> downloadSizeLimit
      [] i = 4 -> signatureSizeLimit

Got(i) ==
    CASE i = 1 -> raw
      [] i = 2 -> rawSig
      [] i = 3 -> fs.data
      [] i = 4 -> sig

\* What the caller of fetch or download sees of a response body.
Observation(body, limit) == [data |-> LimitReader(body, limit), err |-> "nil"]

\* Symbol x is a proper cut of symbol s.
CutOf(x, s) ==
    \/ x.t = "run" /\ s.t = "run" /\ x.v = s.v /\ x.n < s.n
    \/ x.t = "frag" /\ s.t # "run" /\ s.t # "frag" /\ x.whole = s /\ x.cut < SymLen(s)
    \/ x.t = "frag" /\ s.t = "frag" /\ x.whole = s.whole /\ x.cut < s.cut

RECURSIVE IsBytePrefix(_, _)
IsBytePrefix(p, b) ==
    IF p = <<>> THEN TRUE
    ELSE IF b = <<>> THEN FALSE
    ELSE IF Head(p) = Head(b) THEN IsBytePrefix(Tail(p), Tail(b))
    ELSE Len(p) = 1 /\ CutOf(Head(p), Head(b))

Read(i) == Answered(i) /\ net[i].fsErr = "none"

\* C12: once download has returned success, the digest it returned is the
\* SHA-512 of exactly the bytes now in the file at dstPath, and those are the
\* first min(body length, limit) bytes of the response.
C12_DigestOfFile ==
    Read(3) =>
        /\ fs.exists
        /\ hash = SHA512(fs.data)
        /\ ByteLen(fs.data) = Min(ByteLen(net[3].body), downloadSizeLimit)
        /\ IsBytePrefix(fs.data, net[3].body)

C12_Witness ==
    /\ pc = "fetchSig"
    /\ Read(3)
    /\ ByteLen(net[3].body) > downloadSizeLimit
    /\ hash = SHA512(fs.data)
    /\ fs0 = File(<<Garbage>>)

\* C13: whenever download is not running, the handle it created on the file
\* is closed, whichever way download ended; and when all bytes were copied
\* and the close failed, download returned no digest and Download has
\* returned the close error without a further request.
C13_ClosedOnEveryPath ==
    /\ pc # "blocked" => ~fs.open
    /\ \A i \in 1..Len(net) :
          (~net[i].err /\ net[i].fsErr = "close") =>
              /\ Failed
              /\ ret = ErrClose
              /\ hash = <<>>
              /\ Len(net) = i
              /\ fs.data = LimitReader(net[i].body, downloadSizeLimit)

C13_Witness ==
    /\ Returned
    /\ Len(net) = 3
    /\ net[3].fsErr = "close"
    /\ net[3].body = Hello
    /\ fs = File(Hello)
    /\ ret = ErrClose

\* Some key of the list keys made signature s over digest d, pre-hashed mode.
SignerListed(keys, d, s) ==
    \E k \in KeyIds : <<PubBytes(k)>> \in Range(keys) /\ MadeBy(s, k, d, OptsSHA512)

\* C14: when the fetched artifact signature validates under no key of the
\* bundle, Download has returned the artifact verification error, whose text
\* names the signature URL and the artifact URL, and the file download wrote
\* is still at dstPath with the unverified bytes.
C14_RejectedArtifactStays ==
    (Returned /\ Answered(4) /\ ~SignerListed(sigPub, SHA512(fs.data), sig)) =>
        /\ ret = ErrSignature
        /\ {SigURL, SrcURL} \subseteq Range(ErrorText(ret))
        /\ fs = File(LimitReader(net[3].body, downloadSizeLimit))

C14_Witness ==
    /\ Returned
    /\ Answered(4)
    /\ ret = ErrSignature
    /\ sig = Sign(1, SHA512(Hello), OptsSHA512)
    /\ fs0 = NoFile
    /\ fs = File(Hello)

\* The last request of the call ended in a transport failure or in a failure
\* of the file system.
IOFailure ==
    /\ Len(net) >= 1
    /\ \/ net[Len(net)].err
       \/ net[Len(net)].fsErr \in {"create", "copy", "close"}

IOErrors == {ErrTransport, ErrCreate, ErrCopy, ErrClose}

\* C15: Download returns the root verification error exactly when the bundle
\* it read failed root verification, a transport or file-system error
\* exactly when a request or a file operation failed, and the two differ in
\* value and in text.
C15_TrustErrorDistinct ==
    Returned =>
        /\ (ret = ErrRootSignature)
              <=> (Answered(2) /\ ~RootValidates(roots, raw, rawSig))
        /\ (ret \in IOErrors) <=> IOFailure
        /\ ErrRootSignature \notin IOErrors
        /\ \A e \in IOErrors : ErrorText(e) # ErrorText(ErrRootSignature)

\* The bundle is signed by one of its own signing keys, not by a root key.
C15_Witness ==
    /\ Returned
    /\ ret = ErrRootSignature
    /\ raw \in HonestBundles
    /\ rawSig = Sign(FirstSigningKey, raw, OptsPure)
    /\ ~IOFailure

\* The URLs of one call in the order Download requests them.
URLOrder == <<KeyURL, KeySigURL, SrcURL, SigURL>>

\* Exchange i ended in a transport or file-system failure.
IOFailureAtIn(log, i) ==
    log[i].err \/ log[i].fsErr \in {"create", "copy", "close"}
IOFailureAt(i) == IOFailureAtIn(net, i)

\* C16: within one call the requests made are a prefix of the four URLs in
\* order, each at most once, and a transport, file-system or verification
\* failure at a request is the last request of the call, which has failed.
C16_NoRetry ==
    /\ Len(net) <= Len(URLOrder)
    /\ \A i \in 1..Len(net) : net[i].url = URLOrder[i]
    /\ \A i \in 1..Len(net) :
          IOFailureAt(i) => (Len(net) = i /\ Failed /\ ret \in IOErrors)
    /\ (/\ Answered(2)
        /\ \/ ~RootValidates(roots, raw, rawSig)
           \/ parseSigningKeys(raw, <<>>).err # "nil")
          => (Len(net) = 2 /\ Failed /\ ret \notin IOErrors)
    /\ (Answered(4) /\ ~SignerListed(sigPub, hash, sig))
          => (Len(net) = 4 /\ Failed /\ ret = ErrSignature)

\* The third request fails in transport: the call ends with three requests.
C16_Witness ==
    /\ Returned
    /\ Len(net) = 3
    /\ net[3].err
    /\ net[3].url = SrcURL
    /\ ret = ErrTransport
    /\ fs = fs0

\* What Download returns when it runs alone with the trust store rs and the
\* server answers as in log: the error of the first request or file
\* operation that failed, else the verdict on the signatures.  "more" says
\* that a call that stopped with this log would have asked on.
Alone(rs, log) ==
    LET b == LimitReader(log[1].body, signingKeysSizeLimit)
        f == LimitReader(log[3].body, downloadSizeLimit)
        ioErr(i) ==
            CASE log[i].err -> ErrTransport
              [] log[i].fsErr = "create" -> ErrCreate
              [] log[i].fsErr = "copy" -> ErrCopy
              [] log[i].fsErr = "close" -> ErrClose
    IN  IF IOFailureAtIn(log, 1) THEN ioErr(1)
        ELSE IF Len(log) < 2 THEN "more"
        ELSE IF IOFailureAtIn(log, 2) THEN ioErr(2)
        ELSE IF ~RootValidates(rs, b, LimitReader(log[2].body, signatureSizeLimit))
        THEN ErrRootSignature
        ELSE IF Len(log) < 3 THEN "more"
        ELSE IF IOFailureAtIn(log, 3) THEN ioErr(3)
        ELSE IF Len(log) < 4 THEN "more"
        ELSE IF IOFailureAtIn(log, 4) THEN ioErr(4)
        ELSE IF \E k \in KeyIds :
                  /\ <<PubBytes(k)>> \in ListedKeys(b)
                  /\ MadeBy(LimitReader(log[4].body, signatureSizeLimit),
                            k, SHA512(f), OptsSHA512)
        THEN "nil"
        ELSE ErrSignature

\* The file a call with this log leaves at its path, when nothing else
\* writes there: all of the limited body, a prefix of it after a copy error,
\* nothing when download was not reached.
AloneFile(log, file) ==
    IF Len(log) < 3 \/ log[3].err \/ log[3].fsErr = "create"
    THEN file = NoFile
    ELSE /\ file.exists
         /\ ~file.open
         /\ IsBytePrefix(file.data, log[3].body)
         /\ log[3].fsErr = "none"
               => file.data = LimitReader(log[3].body, downloadSizeLimit)

\* A step of one call leaves the Client, the other calls and the files of
\* the other calls as they are.
StepIsLocal ==
    /\ roots' = roots
    /\ conc'.pkgsAddr = conc.pkgsAddr
    /\ \A p \in Procs :
          conc'.call[p] # conc.call[p] =>
              \A q \in Procs \ {p} :
                  /\ conc'.call[q] = conc.call[q]
                  /\ conc'.files[q] = conc.files[q]

\* C17: with calls running concurrently on one Client with different
\* destination paths, no step writes the root keys or the base URL or
\* touches another call, every request goes to the Client's base URL, and a
\* call that has returned has the result and the file it would have alone
\* with the responses it got.
C17_NoInterference ==
    /\ [][StepIsLocal]_vars
    /\ [](\A p \in Procs :
            LET l == conc.call[p]
            IN  /\ \A i \in 1..Len(l.net) :
                      l.net[i].url = url(BaseURL, URLOrder[i])
                /\ l.pc = "done" =>
                      /\ l.ret = Alone(roots, l.net)
                      /\ AloneFile(l.net, conc.files[p]))

\* Two calls that overlapped and read different bundles: the first accepts
\* the artifact, the second rejects it.
C17_Witness ==
    /\ conc.call[1].pc = "done"
    /\ conc.call[2].pc = "done"
    /\ conc.call[2].overlap
    /\ conc.call[1].ret = "nil"
    /\ conc.call[2].ret = ErrSignature
    /\ conc.files[1] = File(Hello)
    /\ conc.files[2] = File(Hello)

\* Signature bytes s were made by key pair k in mode opts, over the bytes b
\* or over their SHA-512 digest.
WrongModeOver(s, k, b, opts) ==
    MadeBy(s, k, b, opts) \/ MadeBy(s, k, SHA512(b), opts)

\* C20: the bundle is verified in raw mode only and the artifact in
\* pre-hashed mode only: a pre-hashed-mode signature over the bundle is
\* rejected even when a root key of the client made it, and a raw-mode
\* signature over the artifact's digest is rejected even when a key of the
\* bundle made it.
C20_ModesNotInterchangeable ==
    /\ (/\ Answered(2)
        /\ \E k \in KeyIds :
              /\ <<PubBytes(k)>> \in Range(roots)
              /\ WrongModeOver(rawSig, k, raw, OptsSHA512))
          => (Failed /\ ret = ErrRootSignature /\ Len(net) = 2)
    /\ (/\ Returned
        /\ Answered(4)
        /\ \E k \in KeyIds :
              /\ <<PubBytes(k)>> \in Range(sigPub)
              /\ MadeBy(sig, k, SHA512(fs.data), OptsPure))
          => ret = ErrSignature

\* A key of the verified bundle signed the digest in raw mode.
C20_Witness ==
    /\ Returned
    /\ Answered(4)
    /\ sigPub = <<<<PubBytes(FirstSigningKey)>>>>
    /\ sig = Sign(FirstSigningKey, SHA512(Hello), OptsPure)
    /\ fs = File(Hello)
    /\ ret = ErrSignature

\* A root key of the client signed the bundle's digest in pre-hashed mode.
C20_WitnessBundle ==
    /\ Returned
    /\ roots = <<<<PubBytes(1)>>>>
    /\ raw = Bundle(<<FirstSigningKey>>)
    /\ rawSig = Sign(1, SHA512(raw), OptsSHA512)
    /\ ret = ErrRootSignature

\* The bytes the verification of a payload is made over, and its mode.
SignedBytes(kind, payload) == IF kind = "bundle" THEN payload ELSE SHA512(payload)
ModeOf(kind) == IF kind = "bundle" THEN OptsPure ELSE OptsSHA512

\* Verdict v was made on the payload and the signature as signed.
OnSigned(v) == v.payload = sgn.signed.payload /\ v.sig = sgn.signed.sig

\* C18: for every key pair of GenerateKey, what the Signer made of the
\* private half signs verifies under the public half in the same mode: a
\* bundle in raw mode, the SHA-512 digest of a package in pre-hashed mode;
\* and with a digest of the right length nothing on the way fails but the
\* random source or the read of the key file.
C18_RoundTrip ==
    /\ sgn.pc = "signed" =>
          /\ \E k \in KeyIds :
                /\ sgn.priv = <<GenerateKeyPriv(k)>>
                /\ sgn.pub = <<GenerateKeyPub(k)>>
                /\ MadeBy(sgn.signed.sig, k,
                          SignedBytes(sgn.kind, sgn.signed.payload), ModeOf(sgn.kind))
          /\ \A i \in 1..Len(sgn.verdicts) :
                OnSigned(sgn.verdicts[i]) => sgn.verdicts[i].ok
    /\ (sgn.pc = "failed" /\ sgn.file = sgn.priv) =>
          sgn.err \in {"rand.Reader", "os.ReadFile",
                       "ed25519: bad Ed25519ph message hash length"}

C18_Witness ==
    /\ sgn.pc = "signed"
    /\ sgn.kind = "package"
    /\ sgn.signed.payload = Hello
    /\ Len(sgn.verdicts) >= 1
    /\ OnSigned(sgn.verdicts[1])
    /\ sgn.verdicts[1].ok

\* Byte string a is byte string b with a single byte changed.
OneByteChanged(a, b) ==
    /\ Len(a) = Len(b)
    /\ \E i \in 1..Len(b) :
          /\ \/ a[i] = Mod(b[i])
             \/ b[i].t = "sig" /\ <<a[i]>> = Damaged(<<b[i]>>, "flip")
          /\ \A j \in 1..Len(b) : j # i => a[j] = b[j]

NewSignerReturned == sgn.pc \notin {"start", "keys"} /\ sgn.err # "rand.Reader"
NewSignerFailed ==
    sgn.pc = "failed" /\ sgn.err \in {"os.ReadFile", "failed to parse"}

\* The blocks of the bytes f that decode.
DecodableBlocks(f) == {i \in 1..Len(f) : f[i].t = "pem" /\ f[i].ok}

\* f holds exactly one block that decodes, at the start of a line, with
\* nothing behind it, tagged as a private key and of the private-key size.
OnePrivateKeyBlock(f) ==
    /\ DecodableBlocks(f) = {Len(f)}
    /\ Len(f) = 1 \/ EndsLine(f[Len(f) - 1])
    /\ f[Len(f)].type = pemTypePrivate
    /\ ByteLen(f[Len(f)].body) = PrivateKeySize

\* C21: NewSigner fails and returns no key when the key file cannot be
\* read, holds no decodable PEM block, holds data behind the first decodable
\* block, or that block has another tag than "PRIVATE KEY" or a key of
\* another size; it succeeds, with the key of the block, only on a readable
\* file with exactly one decodable block, a private key of the right size.
C21_NewSignerRejects ==
    NewSignerReturned =>
        /\ NewSignerFailed <=> (sgn.readErr \/ ~OnePrivateKeyBlock(sgn.file))
        /\ NewSignerFailed => sgn.key = <<>>
        /\ ~NewSignerFailed =>
              /\ sgn.key = sgn.file[Len(sgn.file)].body
              /\ ByteLen(sgn.key) = PrivateKeySize

\* The key file GenerateKey wrote with one newline appended.
C21_Witness ==
    /\ NewSignerFailed
    /\ ~sgn.readErr
    /\ sgn.file = sgn.priv \o <<NL>>
    /\ sgn.err = "failed to parse"
    /\ sgn.key = <<>>

\* ------------------------------------------------------------ package cache
\* A step of Get: the clock and ServeExpired stay and the last operation
\* is a Get.  (Get is the one action that leaves both and ends in a Get.)
GetStep ==
    /\ cache'.out.did = "Get"
    /\ cache'.now = cache.now
    /\ cache'.c.ServeExpired = cache.c.ServeExpired

\* The stored entry is valid for the key: Get was called with the stored
\* key while the clock read a time before the stored expiry.
Hit == cache'.out.key = cache.c.key /\ Before(timeNow, cache.c.goodUntil)

\* The Get of the step called f, and f returned an error.
FillFailed == cache'.out.called /\ cache'.out.ferr = "fill error"

\* The Get of the step called f, and f returned a value.
Filled == cache'.out.called /\ cache'.out.ferr = "nil"

\* A step of NewDisk: the last operation is a NewDisk, the clock stays and
\* ServeExpired is not set.  (A step that clears ServeExpired on a Disk just
\* opened ends where the NewDisk of that state ends.)
NewDiskStep ==
    /\ cache'.out.did \in {"NewDisk", "NewDisk failed"}
    /\ cache'.now = cache.now
    /\ ~cache'.c.ServeExpired

\* C22: Get calls the fill function exactly when the stored key differs
\* from the requested key or the clock is not strictly before the stored
\* expiry; otherwise it returns the stored value, and no error, without
\* calling it.  A successful fill replaces the stored key, value and
\* expiry by the requested key and what the fill returned.
C22_FillExactlyOnMiss ==
    [][GetStep =>
         /\ cache'.out.called <=> ~Hit
         /\ Hit => /\ cache'.out.val = cache.c.val
                   /\ cache'.out.err = "nil"
                   /\ cache'.c = cache.c
         /\ Filled => /\ cache'.c.key = cache'.out.key
                      /\ cache'.c.val = cache'.out.val
                      /\ cache'.out.err = "nil"
                      /\ \E f \in FillResults :
                           /\ f.err = "nil"
                           /\ f.val = cache'.out.val
                           /\ f.until = cache'.c.goodUntil]_vars

\* Get called the fill function, which returned a value, for a key other
\* than the stored one while the stored entry had not expired; and a Get
\* returned the stored value without calling it.
C22_Witness ==
    /\ cache.out.did = "Get"
    /\ cache.out.called
    /\ cache.out.ferr = "nil"
    /\ cache.out.valid
    /\ cache.c.key = cache.out.key
    /\ cache.c.val = TRUE

\* C23: when the fill function fails on a Get for the stored key, Get
\* returns the stored value and no error if ServeExpired is set and the
\* value was stored by an earlier successful fill, and returns the zero
\* value and the error of the fill function if ServeExpired is not set.
C23_ServeExpired ==
    [][(GetStep /\ FillFailed /\ cache'.out.key = cache.c.key) =>
         /\ (cache.c.ServeExpired /\ cache.stored) =>
              cache'.out.val = cache.c.val /\ cache'.out.err = "nil"
         /\ ~cache.c.ServeExpired =>
              cache'.out.val = zeroVal /\ cache'.out.err = "fill error"]_vars

\* C24: when Get is called with a key other than the stored one and the
\* fill function fails, Get returns the error and the zero value, whatever
\* ServeExpired is and whatever is stored.
C24_NeverForOtherKey ==
    [][(GetStep /\ FillFailed /\ cache'.out.key # cache.c.key) =>
         /\ cache'.out.val = zeroVal
         /\ cache'.out.err = "fill error"
         /\ cache'.c = cache.c]_vars

\* Get failed for a key other than the stored one, with ServeExpired set and
\* the value true stored with an expiry.
C24_Witness ==
    /\ cache.out.did = "Get"
    /\ cache.out.called
    /\ cache.out.ferr = "fill error"
    /\ cache.out.key # cache.c.key
    /\ cache.c.ServeExpired
    /\ cache.stored
    /\ cache.c.val = TRUE
    /\ ~IsZero(cache.c.goodUntil)
    /\ cache.out.err = "fill error"

\* C25: the Get that follows Forget of Memory or Empty of Disk calls the
\* fill function, for any key and at any reading of the clock, and returns
\* the zero value and the error when it fails, ServeExpired set or not.
C25_ForgottenNeverServed ==
    [][(GetStep /\ cache.out.did \in {"Forget", "Empty"}) =>
         /\ cache'.out.called
         /\ FillFailed =>
              cache'.out.val = zeroVal /\ cache'.out.err = "fill error"]_vars

\* Nothing is stored after Forget and Empty, and a Get for the zero key with
\* ServeExpired set failed on the empty cache.
C25_Witness ==
    /\ cache.out.did = "Get"
    /\ cache.out.emptied
    /\ cache.out.key = zeroKey
    /\ cache.out.called
    /\ cache.out.ferr = "fill error"
    /\ cache.out.err = "fill error"
    /\ cache.c.ServeExpired
    /\ cache.c = [ZeroCache EXCEPT !.ServeExpired = TRUE]
    /\ ~cache.stored

\* C26: a new Disk opened on the path after a successful fill holds the
\* key, the value and the expiry of the fill, and serves the value without
\* calling the fill function while it has not expired; one opened after
\* Empty holds nothing; and a missing file, or one that opens and does not
\* decode, yields an empty Disk and no error.
C26_Persists ==
    [][(NewDiskStep /\ cache'.out.err # "open error") =>
         /\ (cache.out.did = "Get" /\ cache.out.called
                /\ cache.out.ferr = "nil") =>
              /\ cache'.out.err = "nil"
              /\ cache'.c.key = cache.c.key
              /\ cache'.c.val = cache.c.val
              /\ cache'.c.goodUntil.ns = cache.c.goodUntil.ns
              /\ \A t \in 1 .. MaxTime, f \in FillResults :
                   Before(Time(t, "Local"), cache.c.goodUntil) =>
                     LET r == GetResult(cache'.c, cache.c.key,
                                        Time(t, "Local"), f)
                     IN  ~r.called /\ r.val = cache.c.val /\ r.err = "nil"
         /\ cache.out.did = "Empty" =>
              cache'.out.err = "nil" /\ cache'.c = ZeroCache
         /\ cache.file.kind \in {"missing", "not json"} =>
              cache'.out.err = "nil" /\ cache'.c = ZeroCache]_vars

\* C26, amended: the same when the write of the fill, or of Empty, wrote the
\* file, the expiry being the same instant told in UTC.  When the write left
\* a cut file the new Disk is empty, after a fill as after Empty.
C26_PersistsWhenWritten ==
    [][(NewDiskStep /\ cache'.out.err # "open error") =>
         /\ (cache.out.did = "Get" /\ cache.out.called
                /\ cache.out.ferr = "nil" /\ cache.out.wrote = "written") =>
              /\ cache'.out.err = "nil"
              /\ cache'.c.key = cache.c.key
              /\ cache'.c.val = cache.c.val
              /\ cache'.c.goodUntil = UTC(cache.c.goodUntil)
              /\ \A t \in 1 .. MaxTime, f \in FillResults :
                   Before(Time(t, "Local"), cache.c.goodUntil) =>
                     LET r == GetResult(cache'.c, cache.c.key,
                                        Time(t, "Local"), f)
                     IN  ~r.called /\ r.val = cache.c.val /\ r.err = "nil"
         /\ (cache.out.did = "Empty" /\ cache.out.wrote = "written") =>
              cache'.out.err = "nil" /\ cache'.c = ZeroCache
         /\ (cache.out.did \in {"Get", "Empty"} /\ cache.out.wrote = "cut") =>
              cache'.out.err = "nil" /\ cache'.c = ZeroCache
         /\ cache.file.kind \in {"missing", "not json"} =>
              cache'.out.err = "nil" /\ cache'.c = ZeroCache]_vars

\* A Disk was opened on the file that a fill of the Disk before it wrote,
\* and holds the key, the value true and the expiry of that fill, which the
\* clock has not reached.
C26_Witness ==
    /\ cache.out.did = "NewDisk"
    /\ cache.out.opened
    /\ cache.file = jsonMarshal(cache.c.key, cache.c.val, cache.c.goodUntil)
    /\ cache.file # jsonMarshal(MaxKey, TRUE, Time(MaxTime, "UTC"))
    /\ cache.c.val = TRUE
    /\ Before(timeNow, cache.c.goodUntil)

\* C31: a Get whose fill function fails leaves the stored key, value and
\* expiry as they were before the call, when it serves the expired value as
\* when it returns the error; so is the file of a Disk.
C31_FailedFillStoresNothing ==
    [][(GetStep /\ FillFailed) =>
         /\ cache'.c.key = cache.c.key
         /\ cache'.c.val = cache.c.val
         /\ cache'.c.goodUntil = cache.c.goodUntil
         /\ cache'.file = cache.file
         /\ cache'.out.wrote = "no write"]_vars

\* A Get for the stored key failed on a Disk with ServeExpired set and served
\* the value true of an earlier fill, the file holding that fill.
C31_Witness ==
    /\ cache.impl = "Disk"
    /\ cache.out.did = "Get"
    /\ cache.out.called
    /\ cache.out.ferr = "fill error"
    /\ cache.out.err = "nil"
    /\ cache.out.val = TRUE
    /\ cache.out.key = cache.c.key
    /\ cache.stored
    /\ cache.c.ServeExpired
    /\ cache.c.val = TRUE
    /\ cache.file = jsonMarshal(cache.c.key, TRUE, UTC(cache.c.goodUntil))

\* A Get for a key other than the stored one failed and returned the error,
\* the value true being stored with an expiry.
C31_WitnessError ==
    /\ cache.out.did = "Get"
    /\ cache.out.called
    /\ cache.out.ferr = "fill error"
    /\ cache.out.err = "fill error"
    /\ cache.out.key # cache.c.key
    /\ cache.stored
    /\ cache.c.val = TRUE
    /\ ~IsZero(cache.c.goodUntil)

\* C32: a Memory and a Disk that are given the same Get calls (any keys,
\* readings of the clock, fill results and ServeExpired), with Forget of
\* the Memory wherever Empty of the Disk is called, return the same values
\* and errors and call the fill function on the same calls.
C32_SameObservations ==
    cache.out.did = "Get" => cache.out.m = cache.out.d

\* Both served the value true of an earlier fill for the key when the fill
\* function failed, and the write of that fill had left no file to the Disk.
C32_Witness ==
    /\ cache.out.did = "Get"
    /\ cache.out.ferr = "fill error"
    /\ cache.out.m = [val |-> TRUE, err |-> "nil", called |-> TRUE]
    /\ cache.out.d = [val |-> TRUE, err |-> "nil", called |-> TRUE]
    /\ cache.file.kind # "json"
    /\ cache.c.key = MaxKey
    /\ cache.d.key = MaxKey

\* ------------------------------------------------------------ package kube
\* A step of SetConnectorCondition: the last call is a Set, made at the
\* reading the clock has.
SetStep == cn'.out.did = "Set" /\ cn'.now = cn.now

\* The condition of the type of the call, before it and after it.
OldCondition == cn.Conditions[IndexFunc(cn.Conditions, cn'.out.Type)]
NewCondition == cn'.Conditions[IndexFunc(cn'.Conditions, cn'.out.Type)]

\* C27: SetConnectorCondition leaves a condition of the given type, status,
\* reason, message and generation.  Its LastTransitionTime is the reading
\* of the clock when no condition of the type existed or the existing one
\* had another status, and the LastTransitionTime of the existing one when
\* the status is unchanged.
C27_TransitionTime ==
    [][SetStep =>
         /\ IndexFunc(cn'.Conditions, cn'.out.Type) # 0
         /\ NewCondition.Status = cn'.out.Status
         /\ NewCondition.Reason = cn'.out.Reason
         /\ NewCondition.Message = cn'.out.Message
         /\ NewCondition.ObservedGeneration = cn'.out.gen
         /\ IF IndexFunc(cn.Conditions, cn'.out.Type) = 0
            THEN NewCondition.LastTransitionTime = NewTime(cn.now)
            ELSE IF OldCondition.Status # cn'.out.Status
            THEN NewCondition.LastTransitionTime = NewTime(cn.now)
            ELSE NewCondition.LastTransitionTime
                   = OldCondition.LastTransitionTime]_vars

\* A call changed the reason, the message and the generation of a condition
\* and kept its status: the LastTransitionTime is an earlier reading of the
\* clock, not the one of the call.
C27_Witness ==
    /\ cn.out.did = "Set"
    /\ cn.now = MaxNow
    /\ \E i \in DOMAIN cn.Conditions :
         /\ cn.Conditions[i].Type = cn.out.Type
         /\ cn.Conditions[i].Reason = "anotherReason"
         /\ cn.Conditions[i].Message = "anotherMsg"
         /\ cn.Conditions[i].ObservedGeneration = MaxGen
         /\ cn.Conditions[i].LastTransitionTime = NewTime(0)

\* A step of RemoveConnectorCondition.
RemoveStep == cn'.out.did = "Remove" /\ cn'.now = cn.now

\* The conditions of the types other than the type of the call, in order.
OtherTypes(conds) ==
    LET Other(cond) == cond.Type # cn'.out.Type
    IN  SelectSeq(conds, Other)

\* The places of a list that hold a condition of the type of the call.
Places(conds) == {i \in DOMAIN conds : conds[i].Type = cn'.out.Type}

\* C37: the list holds at most one condition of a type, at the start and
\* after every call.  Set leaves one condition of its type, at the place of
\* the one there was or at the end when there was none, with the status,
\* reason, message and generation of the call, and leaves the conditions of
\* the other types as they were, in the same places.  Remove leaves no
\* condition of its type and the conditions of the other types as they
\* were, in the same order.
C37_OnePerType ==
    /\ [](\A i, j \in DOMAIN cn.Conditions :
            cn.Conditions[i].Type = cn.Conditions[j].Type => i = j)
    /\ [][/\ SetStep =>
              /\ Cardinality(Places(cn'.Conditions)) = 1
              /\ Places(cn.Conditions) # {} =>
                    /\ Places(cn'.Conditions) = Places(cn.Conditions)
                    /\ Len(cn'.Conditions) = Len(cn.Conditions)
              /\ Places(cn.Conditions) = {} =>
                    Places(cn'.Conditions) = {Len(cn.Conditions) + 1}
              /\ \A i \in Places(cn'.Conditions) :
                    /\ cn'.Conditions[i].Status = cn'.out.Status
                    /\ cn'.Conditions[i].Reason = cn'.out.Reason
                    /\ cn'.Conditions[i].Message = cn'.out.Message
                    /\ cn'.Conditions[i].ObservedGeneration = cn'.out.gen
              /\ \A i \in DOMAIN cn.Conditions \ Places(cn.Conditions) :
                    cn'.Conditions[i] = cn.Conditions[i]
              /\ OtherTypes(cn'.Conditions) = OtherTypes(cn.Conditions)
          /\ RemoveStep =>
              /\ Places(cn'.Conditions) = {}
              /\ cn'.Conditions = OtherTypes(cn.Conditions)]_vars

\* A Set replaced the first of two conditions in place, with another status,
\* reason and message.
C37_Witness ==
    /\ cn.out.did = "Set"
    /\ Len(cn.Conditions) = 2
    /\ cn.Conditions[1].Type = cn.out.Type
    /\ cn.Conditions[1].Type = "ConnectorReady"
    /\ cn.Conditions[1].Status = "Unknown"
    /\ cn.Conditions[1].Reason = "anotherReason"
    /\ cn.Conditions[1].Message = "anotherMsg"
    /\ cn.Conditions[2].Type = "SubnetRouterReady"

\* A Remove took the first of two conditions and left the second.
C37_WitnessRemove ==
    /\ cn.out.did = "Remove"
    /\ cn.out.Type = "ConnectorReady"
    /\ Len(cn.Conditions) = 1
    /\ cn.Conditions[1].Type = "SubnetRouterReady"
    /\ cn.Conditions[1].Status = "False"

\* ------------------------------------------------------------ package netutil
\* The state CheckIPForwarding works on, and the protocols the routes need.
StateUsed == IF fwd.state.nil THEN fwd.got ELSE fwd.state
Wanted == protocolsRequiredForForwarding(fwd.routes, StateUsed)

\* Every sysctl key the call can read holds 0 or 1.
SysctlReadable ==
    /\ fwd.v4 \in {"0", "1"}
    /\ fwd.v6 \in {"0", "1"}
    /\ \A i \in StateUsed.Interface : fwd.perIface[i] \in {"0", "1"}

\* Forwarding is disabled, or partly disabled, for a protocol the routes
\* need: IPv6 forwarding is off, or IPv4 forwarding is off for the system
\* and for an interface other than lo (or there is no such interface).
ForwardingDisabled ==
    \/ Wanted.v6 /\ fwd.v6 = "0"
    \/ /\ Wanted.v4
       /\ fwd.v4 = "0"
       /\ \/ StateUsed.Interface \ {lo} = {}
          \/ \E i \in StateUsed.Interface \ {lo} : fwd.perIface[i] = "0"

\* C28: on linux, with a state and with sysctl keys that all read 0 or 1,
\* CheckIPForwarding returns a warning and a nil error whenever forwarding
\* is disabled or partly disabled for a protocol the routes need.
C28_MisconfigurationIsWarning ==
    (/\ fwd.pc = "done"
     /\ fwd.goos = "linux"
     /\ ~StateUsed.nil
     /\ SysctlReadable
     /\ ForwardingDisabled)
    => fwd.out.warn # Nil /\ fwd.out.err = Nil

\* The same but for routes that need IPv6 only.
C28_ExceptIPv6Only ==
    (/\ fwd.pc = "done"
     /\ fwd.goos = "linux"
     /\ ~StateUsed.nil
     /\ SysctlReadable
     /\ ForwardingDisabled)
    => IF Wanted.v4
       THEN fwd.out.warn # Nil /\ fwd.out.err = Nil
       ELSE /\ fwd.out.warn = Nil
            /\ fwd.out.err = Errorf("IPv6 forwarding is disabled", {})

\* C29: a bundle whose signature was made by a signing key, one the bundle
\* lists and the trust store does not hold, is rejected with the root
\* signature error; and an artifact whose signature was made by a root key
\* of the trust store that the verified bundle does not list is rejected
\* with the artifact signature error.
C29_TiersNotInterchangeable ==
    /\ (/\ Answered(2)
        /\ \E k \in KeyIds :
             /\ MadeBy(rawSig, k, raw, OptsPure)
             /\ <<PubBytes(k)>> \in ListedKeys(raw)
             /\ <<PubBytes(k)>> \notin Range(roots))
       => Failed /\ ret = ErrRootSignature /\ Len(net) = 2
    /\ (/\ Returned
        /\ Answered(4)
        /\ \E k \in KeyIds :
             /\ MadeBy(sig, k, SHA512(fs.data), OptsSHA512)
             /\ <<PubBytes(k)>> \in Range(roots)
             /\ <<PubBytes(k)>> \notin Range(sigPub))
       => ret = ErrSignature

\* The root key that made the signature of the bundle, which was accepted,
\* also made the signature of the artifact, which was rejected.
C29_Witness ==
    /\ Returned
    /\ Answered(4)
    /\ ret = ErrSignature
    /\ \E k \in RootIds :
         /\ <<PubBytes(k)>> \in Range(roots)
         /\ rawSig = Sign(k, raw, OptsPure)
         /\ sig = Sign(k, SHA512(fs.data), OptsSHA512)
    /\ sigPub # <<>>

\* A signing key that the bundle lists made the signature of the bundle, in
\* raw mode and over the bytes of the bundle, and the bundle was rejected by
\* a client whose trust store is not empty.
C29_WitnessBundle ==
    /\ Returned
    /\ ret = ErrRootSignature
    /\ roots # <<>>
    /\ \E k \in SigningIds :
         /\ rawSig = Sign(k, raw, OptsPure)
         /\ <<PubBytes(k)>> \in ListedKeys(raw)

\* C30: when Download has requested the artifact and then fails, a file
\* that was at dstPath before the call has been truncated and overwritten:
\* dstPath holds bytes of the artifact of this call, not what it held.
C30_FailedOverwrites ==
    (Failed /\ Len(net) >= 3 /\ fs0.exists) =>
        /\ fs.exists
        /\ IsBytePrefix(fs.data, LimitReader(net[3].body, downloadSizeLimit))

\* C30, amended: the same once download has created the file, that is when
\* the artifact request got a response and os.Create succeeded; the file
\* then holds what io.Copy wrote of the artifact, all of it when the failure
\* is that of Close, of the .sig request or of the verification.  When the
\* artifact request fails in transport or os.Create fails, dstPath holds
\* what it held before the call.
C30_OverwrittenOnceCreated ==
    (Failed /\ Len(net) >= 3 /\ fs0.exists) =>
        IF net[3].err \/ net[3].fsErr = "create"
        THEN fs = fs0
        ELSE /\ fs.exists
             /\ ~fs.open
             /\ IsBytePrefix(fs.data,
                             LimitReader(net[3].body, downloadSizeLimit))
             /\ net[3].fsErr # "copy" =>
                  fs.data = LimitReader(net[3].body, downloadSizeLimit)

\* The .sig request failed in transport, and the file that was at dstPath
\* holds the artifact, which nothing has verified.
C30_Witness ==
    /\ Failed
    /\ Len(net) = 4
    /\ net[4].err
    /\ fs0 = File(<<Garbage>>)
    /\ fs = File(Hello)

\* The artifact request of a second Download failed in transport, and
\* dstPath still holds the artifact that the first Download verified.
C30_WitnessPreserved ==
    /\ Failed
    /\ Len(net) = 3
    /\ net[3].err
    /\ prev.sig # <<>>
    /\ fs0 = File(Hello)
    /\ fs = fs0

\* ------------------------------------------------ the ConnectorReconciler
\* The call of Connector u takes the finalizer out of the Connector.
Releases(u) ==
    /\ rc.p[u].pc = "removeFinalizer"
    /\ rc.obj[u].finalizer
    /\ ~rc'.obj[u].finalizer

\* The call of Connector u, which is being deleted, returns from Cleanup.
CleanupReturns(u) ==
    /\ rc.p[u].pc = "cleanup"
    /\ rc.p[u].cn.deleting
    /\ rc'.p[u].pc = "idle"

\* C33: Reconcile takes the finalizer out of a Connector that is being
\* deleted only after Cleanup reported done in that call; when Cleanup is
\* not done or fails the finalizer stays and Reconcile returns a requeue
\* after 5 seconds or the error; and no call works on a Connector that is
\* being deleted and has no finalizer: its resources and its membership of
\* subnetRouters stay.
C33_FinalizerAfterCleanup ==
    [][\A u \in UIDs :
         /\ Releases(u) => rc.p[u].done
         /\ CleanupReturns(u) =>
               /\ rc'.obj[u].finalizer
               /\ rc'.ret \in {Result(shortRequeue, FALSE, "nil"),
                                Result(0, FALSE, "failed to cleanup")}
         /\ (rc.obj[u].deleting /\ ~rc.obj[u].finalizer
                /\ rc.p[u].pc = "idle") =>
               /\ rc'.p[u].pc = "idle"
               /\ rc'.res[u] = rc.res[u]
               /\ (u \in rc'.subnetRouters) = (u \in rc.subnetRouters)
               /\ ~rc'.obj[u].finalizer]_vars

\* The same for the Connectors whose Spec.SubnetRouter is set when the call
\* reads them.
C33_WhenSubnetRouterSet ==
    [][\A u \in UIDs :
         /\ (Releases(u) /\ rc.p[u].cn.spec # "nil") => rc.p[u].done
         /\ CleanupReturns(u) =>
               /\ rc'.obj[u].finalizer
               /\ rc'.ret \in {Result(shortRequeue, FALSE, "nil"),
                                Result(0, FALSE, "failed to cleanup")}
         /\ (rc.obj[u].deleting /\ ~rc.obj[u].finalizer
                /\ rc.p[u].pc = "idle") =>
               /\ rc'.p[u].pc = "idle"
               /\ rc'.res[u] = rc.res[u]
               /\ (u \in rc'.subnetRouters) = (u \in rc.subnetRouters)
               /\ ~rc'.obj[u].finalizer]_vars

\* The call of Connector u is in maybeProvisionSubnetRouter.
Provisioning(u) ==
    /\ rc.p[u].pc \in {"lock", "locked", "gauge", "unlock", "provision"}
    /\ ~rc.p[u].done

\* C34: a call is in maybeProvisionSubnetRouter only for a Connector that
\* holds the finalizer in the API server; a call whose update with the
\* finalizer fails returns an error and provisions nothing; and a Connector
\* that is not being deleted and has resources holds the finalizer.
C34_FinalizerBeforeProvision ==
    /\ [](\A u \in UIDs :
            /\ Provisioning(u) =>
                  /\ rc.obj[u].exists
                  /\ rc.obj[u].finalizer
                  /\ rc.p[u].cn.finalizer
            /\ (rc.res[u] /\ rc.obj[u].exists /\ ~rc.obj[u].deleting) =>
                  rc.obj[u].finalizer)
    /\ [][\A u \in UIDs :
            (/\ rc.p[u].pc = "addFinalizer"
             /\ rc'.p[u].pc # "addFinalizer"
             /\ ~rc'.obj[u].finalizer) =>
               /\ rc'.p[u].pc = "idle"
               /\ rc'.ret.err \in {"failed to add finalizer", "status update"}
               /\ rc'.res = rc.res
               /\ rc'.subnetRouters = rc.subnetRouters]_vars

\* A call added the finalizer to a Connector with routes and provisioned
\* its subnet router.
C34_Witness ==
    \E u \in UIDs :
        /\ rc.res[u]
        /\ u \in rc.subnetRouters
        /\ rc.obj[u] = Connector(FALSE, TRUE, "routes")
        /\ rc.p[u].pc = "idle"
        /\ rc.ret = Result(0, FALSE, "nil")

\* C35: whenever the mutex is free the gauge is the number of UIDs in
\* subnetRouters; a UID comes into subnetRouters in the call of its
\* Connector that goes on to Provision, and leaves it in a call of its
\* Connector in which Cleanup reported done.
C35_GaugeCountsUIDs ==
    /\ [](rc.mu = 0 => rc.gauge = Cardinality(rc.subnetRouters))
    /\ [][\A u \in UIDs :
            /\ (u \notin rc.subnetRouters /\ u \in rc'.subnetRouters) =>
                  /\ rc.mu = u
                  /\ Provisioning(u)
                  /\ rc.p[u].cn.spec = "routes"
            /\ (u \in rc.subnetRouters /\ u \notin rc'.subnetRouters) =>
                  /\ rc.mu = u
                  /\ rc.p[u].done]_vars

\* The calls of two Connectors are both past the mutex and about to
\* Provision, and the gauge counts both.
C35_Witness ==
    /\ rc.mu = 0
    /\ rc.gauge = 2
    /\ {1, 2} \subseteq rc.subnetRouters
    /\ rc.p[1].pc = "provision"
    /\ rc.p[2].pc = "provision"

\* One call holds the mutex, between Remove and the gauge, while the call of
\* another Connector waits for the mutex.
C35_WitnessLocked ==
    /\ rc.mu # 0
    /\ rc.gauge > Cardinality(rc.subnetRouters)
    /\ \E u \in UIDs : rc.p[u].pc = "lock"

\* C36: a Connector whose finalizer Reconcile removed is not in
\* subnetRouters and has no resources left.
C36_ReleasedNotCounted ==
    \A u \in rc.released :
        /\ u \notin rc.subnetRouters
        /\ ~rc.res[u]

\* C11: when the server stalls, taking a request and never completing the
\* response, the Download call still returns in the end, with a fetch error.
C11_StalledCallReturns ==
    [](pc = "blocked" => <>(Returned /\ ret = ErrTransport))

\* C10 as claimed: no more than limit bytes are kept, and when the body was
\* longer the caller sees something it would not see for the body that ends
\* at the limit.
C10_TruncationDetectable ==
    \A i \in 1..Len(net) :
        Read(i) =>
            /\ ByteLen(Got(i)) <= Limit(i)
            /\ ByteLen(net[i].body) > Limit(i) =>
                  Observation(net[i].body, Limit(i))
                      # Observation(LimitReader(net[i].body, Limit(i)), Limit(i))

\* C10 as amended: what is kept is the first min(length, limit) bytes of the
\* body, the file never grows past the limit, and a longer body is cut
\* silently: the read returns no error (the call goes on) and the caller sees
\* what it sees for the body that ends at the limit.
C10_SilentTruncation ==
    /\ \A i \in 1..Len(net) :
          Read(i) =>
              /\ ByteLen(Got(i)) = Min(ByteLen(net[i].body), Limit(i))
              /\ IsBytePrefix(Got(i), net[i].body)
              /\ ByteLen(net[i].body) > Limit(i) =>
                    /\ (i = Len(net) /\ i \in {1, 3}) => ret = "none"
                    /\ [data |-> Got(i), err |-> "nil"]
                          = Observation(LimitReader(net[i].body, Limit(i)), Limit(i))
    /\ \A i \in 1..Len(net) :
          (net[i].url = SrcURL /\ fs # fs0) =>
              /\ ByteLen(fs.data) <= downloadSizeLimit
              /\ IsBytePrefix(fs.data, net[i].body)

C10_Witness ==
    /\ Read(1) /\ ByteLen(net[1].body) > signingKeysSizeLimit
    /\ Read(2) /\ ByteLen(net[2].body) > signatureSizeLimit
    /\ Read(3) /\ ByteLen(net[3].body) > downloadSizeLimit
    /\ Read(4) /\ ByteLen(net[4].body) > signatureSizeLimit
    /\ ret = "nil"

====
